---------------------------- MODULE Spec2Model ----------------------------
(***************************************************************************)
(* Player Card Forge: the card composition engine (loadImage,              *)
(* createPlaceholder, drawTextWithFit, generateCard of                     *)
(* src/services/cardGenerator.ts) and the batch driver of src/App.tsx      *)
(* (handleParseData, handleForgeCards and the controls that enable them;    *)
(* handleProcess of the earlier App component in the same file).            *)
(*                                                                         *)
(* The program runs on one JavaScript event loop.  An action of this       *)
(* module is one task or one promise continuation: the code between two    *)
(* suspension points, which nothing can interleave.  Continuations         *)
(* (microtasks) run before the next task: see MicrotaskPending.            *)
(*                                                                         *)
(* Strings are sequences of one-character strings, so that slicing,        *)
(* padding, upper-casing and measuring are computed and not assumed.       *)
(***************************************************************************)
EXTENDS Integers, Sequences, FiniteSets, TLC

VARIABLES
    assets,          \* App state: excelFile, agrasenImage, logoImage, localImageMap
    players,         \* App state: PlayerData[]
    generatedCards,  \* App state: GeneratedCard[]
    status,          \* App state: ProcessStatus
    errorMessage,    \* App state: string | null
    selectedCard,    \* App state: GeneratedCard | null
    parse,           \* parse[f]: the pending parseExcelFile calls on file f
    runs,            \* the activations of the batch handler, in the order they started
    gen,             \* gen[r]: the generateCard call runs[r] is awaiting
    env,             \* the browser: net = the sources that load, available = the
                     \* placeholder's data: URL is in the list of available images,
                     \* random = what Math.random yields for a card
    fit,             \* a direct call of drawTextWithFit
    scout            \* the activation of handleGenerateScoutReport, if any

vars == <<assets, players, generatedCards, status, errorMessage, selectedCard,
          parse, runs, gen, env, fit, scout>>

-----------------------------------------------------------------------------
(* Bounds of the model *)

\* activations of the batch handler in one behaviour
MaxRuns == 2
\* parseExcelFile calls pending at one time
MaxParses == 1
\* the longest text given to a direct call of drawTextWithFit
MaxTextLen == 60

(* Program constants *)

CARD_WIDTH == 600
CARD_HEIGHT == 850
\* the floor of the shrink loop of drawTextWithFit
FONT_FLOOR == 14
\* the step of the shrink loop of drawTextWithFit
FONT_STEP == 2
\* the side of the placeholder canvas
PLACEHOLDER_SIZE == 400

-----------------------------------------------------------------------------
(* Strings *)

Null == <<>>

\* the string of n characters c
Repeat(c, n) == [i \in 1..n |-> c]

\* String.prototype.startsWith
StartsWith(s, p) == Len(s) >= Len(p) /\ SubSeq(s, 1, Len(p)) = p

\* String.prototype.substring(0, n)
Substring0(s, n) == SubSeq(s, 1, IF n < Len(s) THEN n ELSE Len(s))

LowerChars == <<"a", "b", "c", "d", "e", "f", "g", "h", "i", "j", "k", "l", "m",
                "n", "o", "p", "q", "r", "s", "t", "u", "v", "w", "x", "y", "z">>
UpperChars == <<"A", "B", "C", "D", "E", "F", "G", "H", "I", "J", "K", "L", "M",
                "N", "O", "P", "Q", "R", "S", "T", "U", "V", "W", "X", "Y", "Z">>

UpperOfChar(ch) ==
    IF \E i \in 1..26 : LowerChars[i] = ch
    THEN UpperChars[CHOOSE i \in 1..26 : LowerChars[i] = ch]
    ELSE ch

\* String.prototype.toUpperCase
ToUpperCase(s) == [i \in 1..Len(s) |-> UpperOfChar(s[i])]

DigitChar == <<"0", "1", "2", "3", "4", "5", "6", "7", "8", "9">>

RECURSIVE NatToString(_)
NatToString(n) ==
    IF n < 10 THEN <<DigitChar[n + 1]>>
    ELSE NatToString(n \div 10) \o <<DigitChar[(n % 10) + 1]>>

\* Number.prototype.toString of an integer
NumberToString(n) == IF n < 0 THEN <<"-">> \o NatToString(0 - n) ELSE NatToString(n)

\* String.prototype.padStart(n, c)
PadStart(s, n, c) == Repeat(c, n - Len(s)) \o s

\* String.prototype.trim (the blank is the only white space of the alphabet)
RECURSIVE TrimLeft(_)
TrimLeft(s) == IF s # <<>> /\ Head(s) = " " THEN TrimLeft(Tail(s)) ELSE s
RECURSIVE TrimRight(_)
TrimRight(s) ==
    IF s # <<>> /\ s[Len(s)] = " " THEN TrimRight(SubSeq(s, 1, Len(s) - 1)) ELSE s
Trim(s) == TrimRight(TrimLeft(s))

\* s.split('.')[0]: the part before the first dot
RECURSIVE BeforeFirstDot(_)
BeforeFirstDot(s) ==
    IF s = <<>> \/ Head(s) = "." THEN <<>> ELSE <<Head(s)>> \o BeforeFirstDot(Tail(s))

\* s.split('.').slice(0, -1).join('.'): the part before the last dot, ''
\* when s has no dot
BeforeLastDot(s) ==
    LET dots == {i \in 1..Len(s) : s[i] = "."}
    IN  IF dots = {} THEN <<>>
        ELSE SubSeq(s, 1, (CHOOSE i \in dots : \A j \in dots : j <= i) - 1)

\* errorMessage when it is null: no message (kept a string, as the messages)
NoMessage == ""

-----------------------------------------------------------------------------
(* Images and the 2D drawing context *)

\* An HTMLImageElement as a drawing source: complete = fully loaded and
\* decoded (drawImage draws nothing otherwise); clean = drawing it leaves the
\* canvas origin-clean.
NoImage == [kind |-> "none", src |-> <<>>, complete |-> FALSE, clean |-> TRUE, drawn |-> 0]

\* the data: URL the placeholder canvas encodes to
PlaceholderUrl == <<"d", "a", "t", "a", ":", "P">>

DefaultFont == [weight |-> "400", size |-> 10, face |-> "sans-serif"]

\* the drawing state of a fresh CanvasRenderingContext2D
DefaultCtxState ==
    [font |-> DefaultFont, textAlign |-> "start", textBaseline |-> "alphabetic",
     fillStyle |-> "#000000", strokeStyle |-> "#000000", lineWidth |-> 1,
     globalAlpha |-> "1.0", shadowColor |-> "rgba(0,0,0,0)", shadowBlur |-> 0,
     clip |-> <<>>]

\* a canvas with its context: st the drawing state, stack the saved states,
\* path the current path, ops the calls made so far, tainted = not origin-clean
NewCanvas(w, h) ==
    [width |-> w, height |-> h, st |-> DefaultCtxState, stack |-> <<>>,
     path |-> <<>>, ops |-> <<>>, tainted |-> FALSE]

Emit(c, name, args) ==
    [c EXCEPT !.ops = Append(@, [op |-> name, args |-> args, st |-> c.st,
                                 depth |-> Len(c.stack)])]

\* ctx.<property> = v
SetProp(c, prop, v) == [c EXCEPT !.st[prop] = v]

\* ctx.font = `${fontWeight} ${fontSize}px "${fontFace}"`
SetFont(c, weight, size, face) ==
    SetProp(c, "font", [weight |-> weight, size |-> size, face |-> face])

Save(c) == [Emit(c, "save", <<>>) EXCEPT !.stack = Append(@, c.st)]

\* restore on an empty stack does nothing
Restore(c) ==
    IF c.stack = <<>> THEN Emit(c, "restore", <<>>)
    ELSE [Emit(c, "restore", <<>>) EXCEPT
              !.st = c.stack[Len(c.stack)],
              !.stack = SubSeq(c.stack, 1, Len(c.stack) - 1)]

BeginPath(c) == [Emit(c, "beginPath", <<>>) EXCEPT !.path = <<>>]
PathOp(c, name, args) == [Emit(c, name, args) EXCEPT !.path = Append(@, <<name, args>>)]
Clip(c) == [Emit(c, "clip", <<>>) EXCEPT !.st.clip = Append(@, c.path)]
Stroke(c) == Emit(c, "stroke", <<>>)
FillRect(c, x, y, w, h) == Emit(c, "fillRect", <<x, y, w, h>>)
FillText(c, text, x, y) == Emit(c, "fillText", <<text, x, y>>)

\* drawImage: an image that is not fully decoded is not drawn (no exception);
\* a drawn image that is not origin-clean taints the canvas
DrawImage(c, img, x, y, w, h) ==
    [Emit(c, "drawImage", <<img, x, y, w, h>>) EXCEPT
        !.tainted = @ \/ (img.complete /\ ~img.clean)]

\* ctx.measureText(text).width at the context's font, in tenths of a pixel:
\* every glyph advances 0.6 em, so the width grows with the font size
MeasureTextWidth10(c, text) == Len(text) * c.st.font.size * 6

\* the calls that paint what the inputs of the call decide: the texts, the
\* images and the texture lines (drawn at save depth 2)
IsPainting(o) ==
    \/ o.op \in {"fillText", "drawImage"}
    \/ o.op \in {"moveTo", "lineTo"} /\ o.depth = 2

\* what tells the encoded image of one card from that of another: those
\* calls, with their arguments and font size
Pixels(c) ==
    LET sel == SelectSeq(c.ops, IsPainting)
    IN  [i \in 1..Len(sel) |-> <<sel[i].op, sel[i].args, sel[i].st.font.size>>]

\* canvas.toDataURL: the encoded image, or the SecurityError of a tainted canvas
ToDataURL(c) ==
    IF c.tainted THEN [ok |-> FALSE, error |-> "SecurityError"]
    ELSE [ok |-> TRUE,
          url |-> [mime |-> "image/png", width |-> c.width, height |-> c.height,
                   pixels |-> Pixels(c)]]

-----------------------------------------------------------------------------
(* createPlaceholder, src/services/cardGenerator.ts:39-60 *)

\* ctxAvail: canvas.getContext('2d') returned a context.  ready: the browser
\* had the image of this data: URL available when src was assigned; otherwise
\* the element is still decoding when createPlaceholder returns it.
CreatePlaceholder(ctxAvail, ready) ==
    LET c0 == NewCanvas(PLACEHOLDER_SIZE, PLACEHOLDER_SIZE)
        c1 == FillRect(SetProp(c0, "fillStyle", "#2a0e45"), 0, 0, 400, 400)
        c2 == FillRect(SetProp(c1, "fillStyle", "#4a1d6e"), 20, 20, 360, 360)
        c3 == SetFont(SetProp(c2, "fillStyle", "#ffd700"), "bold", 40, "sans-serif")
        c4 == SetProp(SetProp(c3, "textAlign", "center"), "textBaseline", "middle")
        c5 == FillText(c4, <<"N", "O", " ", "I", "M", "A", "G", "E">>, 200, 200)
        canvas == IF ctxAvail THEN c5 ELSE c0
        url == ToDataURL(canvas)
    IN  [kind |-> "placeholder", src |-> PlaceholderUrl, complete |-> ready,
         clean |-> TRUE, drawn |-> Len(url.url.pixels)]

-----------------------------------------------------------------------------
(* loadImage, src/services/cardGenerator.ts:10-34 *)

\* loadImage without the early return of lines 11-16: the empty source is
\* given to an Image element like any other
LoadImage_NoEarlyReturn(src, ctxAvail, ready) ==
    [src |-> src, state |-> "pending", value |-> NoImage,
     elementSrc |-> src, crossOrigin |-> "anonymous", handlers |-> TRUE,
     warned |-> <<>>]

\* loadImage without line 19 (img.crossOrigin = "anonymous")
LoadImage_NoCrossOrigin(src, ctxAvail, ready) ==
    IF src = <<>>
    THEN [src |-> src, state |-> "fulfilled",
          value |-> CreatePlaceholder(ctxAvail, ready),
          elementSrc |-> Null, crossOrigin |-> "", handlers |-> FALSE,
          warned |-> <<[level |-> "warn", text |-> "No source URL provided", src |-> Null]>>]
    ELSE [src |-> src, state |-> "pending", value |-> NoImage,
          elementSrc |-> src, crossOrigin |-> "", handlers |-> TRUE,
          warned |-> <<>>]

\* The promise loadImage returns, with the Image element it made:
\* state pending | fulfilled | rejected, value the image it resolved with,
\* elementSrc the source given to the Image element (Null: no element was
\* given the source), crossOrigin the element's attribute, handlers = onload
\* and onerror are set, warned = what the call logged.
LoadImage(src, ctxAvail, ready) ==
    IF src = <<>>
    THEN [src |-> src, state |-> "fulfilled",
          value |-> CreatePlaceholder(ctxAvail, ready),
          elementSrc |-> Null, crossOrigin |-> "", handlers |-> FALSE,
          warned |-> <<[level |-> "warn", text |-> "No source URL provided", src |-> Null]>>]
    ELSE [src |-> src, state |-> "pending", value |-> NoImage,
          elementSrc |-> src, crossOrigin |-> "anonymous", handlers |-> TRUE,
          warned |-> <<>>]

\* cors: the response is same-origin or passed the CORS check.  An element
\* with crossOrigin set fires onload only for such a response (any other is a
\* load failure); an element without it loads any response.
LoadSucceedsWith(p, cors) == (p.crossOrigin = "anonymous") => cors

\* an onload handler that does not resolve the promise
OnLoad_NoResolve(p, cors) == [p EXCEPT !.handlers = FALSE]

\* img.onload = () => resolve(img)
OnLoad(p, cors) ==
    [p EXCEPT !.state = "fulfilled",
              !.value = [kind |-> "loaded", src |-> p.elementSrc, complete |-> TRUE,
                         clean |-> cors, drawn |-> 0]]

\* img.onerror that rejects the promise instead of resolving it
OnError_Rejects(p, ctxAvail, ready) ==
    [p EXCEPT !.state = "rejected",
              !.warned = Append(@, [level |-> "warn", text |-> "Failed to load image",
                                    src |-> p.src])]

\* img.onerror that resolves with the placeholder but logs nothing
OnError_Silent(p, ctxAvail, ready) ==
    [p EXCEPT !.state = "fulfilled", !.value = CreatePlaceholder(ctxAvail, ready)]

\* img.onerror: warn with the attempted source, resolve with the placeholder
OnError(p, ctxAvail, ready) ==
    [p EXCEPT !.state = "fulfilled",
              !.value = CreatePlaceholder(ctxAvail, ready),
              !.warned = Append(@, [level |-> "warn", text |-> "Failed to load image",
                                    src |-> p.src])]

-----------------------------------------------------------------------------
(* drawTextWithFit, src/services/cardGenerator.ts:65-93 *)

\* the loop with a floor of 16 instead of 14
RECURSIVE ShrinkLoop_Floor16(_, _, _, _, _)
ShrinkLoop_Floor16(f, text, maxWidth, fontWeight, fontFace) ==
    IF MeasureTextWidth10(f.c, text) > maxWidth * 10 /\ f.fontSize > FONT_FLOOR + 2
    THEN ShrinkLoop_Floor16([c |-> SetFont(f.c, fontWeight, f.fontSize - FONT_STEP, fontFace),
                             fontSize |-> f.fontSize - FONT_STEP],
                            text, maxWidth, fontWeight, fontFace)
    ELSE f

\* the loop that shrinks once at most
ShrinkLoop_Once(f, text, maxWidth, fontWeight, fontFace) ==
    IF MeasureTextWidth10(f.c, text) > maxWidth * 10 /\ f.fontSize > FONT_FLOOR
    THEN [c |-> SetFont(f.c, fontWeight, f.fontSize - FONT_STEP, fontFace),
          fontSize |-> f.fontSize - FONT_STEP]
    ELSE f

\* the loop that steps down by 3 instead of 2
RECURSIVE ShrinkLoop_Step3(_, _, _, _, _)
ShrinkLoop_Step3(f, text, maxWidth, fontWeight, fontFace) ==
    IF MeasureTextWidth10(f.c, text) > maxWidth * 10 /\ f.fontSize > FONT_FLOOR
    THEN ShrinkLoop_Step3([c |-> SetFont(f.c, fontWeight, f.fontSize - (FONT_STEP + 1), fontFace),
                           fontSize |-> f.fontSize - (FONT_STEP + 1)],
                          text, maxWidth, fontWeight, fontFace)
    ELSE f

\* the while loop of lines 85-88 on f = [c |-> context, fontSize |-> size]
RECURSIVE ShrinkLoop(_, _, _, _, _)
ShrinkLoop(f, text, maxWidth, fontWeight, fontFace) ==
    IF MeasureTextWidth10(f.c, text) > maxWidth * 10 /\ f.fontSize > FONT_FLOOR
    THEN ShrinkLoop([c |-> SetFont(f.c, fontWeight, f.fontSize - FONT_STEP, fontFace),
                     fontSize |-> f.fontSize - FONT_STEP],
                    text, maxWidth, fontWeight, fontFace)
    ELSE f

\* a text-fit that draws at the initial size, before it shrinks
DrawTextWithFit_DrawsFirst(c, text, x, y, maxWidth, initialFontSize, fontFace, fontWeight, color) ==
    LET c1 == Save(c)
        c2 == SetProp(SetProp(SetProp(c1, "textAlign", "center"),
                              "textBaseline", "alphabetic"), "fillStyle", color)
        f0 == [c |-> FillText(SetFont(c2, fontWeight, initialFontSize, fontFace), text, x, y),
               fontSize |-> initialFontSize]
        f1 == ShrinkLoop(f0, text, maxWidth, fontWeight, fontFace)
    IN  [c |-> Restore(f1.c), fontSize |-> f1.fontSize]

\* a text-fit that moves a shrunk text down by half of what it lost in height
DrawTextWithFit_Recentred(c, text, x, y, maxWidth, initialFontSize, fontFace, fontWeight, color) ==
    LET c1 == Save(c)
        c2 == SetProp(SetProp(SetProp(c1, "textAlign", "center"),
                              "textBaseline", "alphabetic"), "fillStyle", color)
        f0 == [c |-> SetFont(c2, fontWeight, initialFontSize, fontFace),
               fontSize |-> initialFontSize]
        f1 == ShrinkLoop(f0, text, maxWidth, fontWeight, fontFace)
        c3 == FillText(f1.c, text, x, y + (initialFontSize - f1.fontSize) \div 2)
    IN  [c |-> Restore(c3), fontSize |-> f1.fontSize]

\* a text-fit without its save and restore
DrawTextWithFit_NoRestore(c, text, x, y, maxWidth, initialFontSize, fontFace, fontWeight, color) ==
    LET c2 == SetProp(SetProp(SetProp(c, "textAlign", "center"),
                              "textBaseline", "alphabetic"), "fillStyle", color)
        f0 == [c |-> SetFont(c2, fontWeight, initialFontSize, fontFace),
               fontSize |-> initialFontSize]
        f1 == ShrinkLoop(f0, text, maxWidth, fontWeight, fontFace)
    IN  [c |-> FillText(f1.c, text, x, y), fontSize |-> f1.fontSize]

\* returns [c |-> the context after the call, fontSize |-> the returned size]
DrawTextWithFit(c, text, x, y, maxWidth, initialFontSize, fontFace, fontWeight, color) ==
    LET c1 == Save(c)
        c2 == SetProp(SetProp(SetProp(c1, "textAlign", "center"),
                              "textBaseline", "alphabetic"), "fillStyle", color)
        f0 == [c |-> SetFont(c2, fontWeight, initialFontSize, fontFace),
               fontSize |-> initialFontSize]
        f1 == ShrinkLoop(f0, text, maxWidth, fontWeight, fontFace)
        c3 == FillText(f1.c, text, x, y)
    IN  [c |-> Restore(c3), fontSize |-> f1.fontSize]

-----------------------------------------------------------------------------
(* drawShieldPath, src/services/cardGenerator.ts:98-107.  The coordinates of  *)
(* the path are fractions of w and h: they are kept in tenths of a unit.      *)

DrawShieldPath(c, w, h) ==
    LET p0 == BeginPath(c)
        p1 == PathOp(p0, "moveTo", <<w * 1, h * 1>>)
        p2 == PathOp(p1, "lineTo", <<w * 9, h * 1>>)
        p3 == PathOp(p2, "lineTo", <<w * 9, h * 7>>)
        p4 == PathOp(p3, "quadraticCurveTo", <<w * 9, (h * 85) \div 10, w * 5, (h * 95) \div 10>>)
        p5 == PathOp(p4, "quadraticCurveTo", <<w * 1, (h * 85) \div 10, w * 1, h * 7>>)
    IN  PathOp(p5, "closePath", <<>>)

-----------------------------------------------------------------------------
(* generateCard, src/services/cardGenerator.ts:128-288: the drawing that      *)
(* follows the three-way join.  rnd: the ten values Math.random() *           *)
(* CARD_WIDTH of the texture lines.                                           *)

\* lines 143-154: the five texture lines
RECURSIVE TextureLines(_, _, _)
TextureLines(c, rnd, i) ==
    IF i >= 5 THEN c
    ELSE LET a == BeginPath(c)
             b == PathOp(a, "moveTo", <<rnd[2 * i + 1], 0>>)
             d == PathOp(b, "lineTo", <<rnd[2 * i + 2], CARD_HEIGHT>>)
         IN  TextureLines(Stroke(d), rnd, i + 1)

\* lines 128-154: clipping scope, background gradient, texture
DrawBackground(c, rnd) ==
    LET c1 == Save(c)
        c2 == Clip(DrawShieldPath(c1, CARD_WIDTH, CARD_HEIGHT))
        g1 == Emit(c2, "createLinearGradient", <<0, 0, CARD_WIDTH, CARD_HEIGHT>>)
        g2 == Emit(g1, "addColorStop", <<"0", "#3b1461">>)
        g3 == Emit(g2, "addColorStop", <<"0.5", "#2a0e45">>)
        c3 == Emit(g3, "addColorStop", <<"1", "#1a0525">>)
        c4 == FillRect(SetProp(c3, "fillStyle", "gradient"), 0, 0, CARD_WIDTH, CARD_HEIGHT)
        c5 == SetProp(SetProp(SetProp(Save(c4), "globalAlpha", "0.1"),
                              "strokeStyle", "#ffffff"), "lineWidth", 2)
    IN  Restore(TextureLines(c5, rnd, 0))

\* lines 156-173: player photo and the fade of its bottom
DrawPlayerPhoto(c, playerImg) ==
    LET playerW == 440
        playerH == 440
        playerX == (CARD_WIDTH - playerW) \div 2 + 50
        playerY == 135
        c1 == DrawImage(c, playerImg, playerX, playerY, playerW, playerH)
        g1 == Emit(c1, "createLinearGradient",
                   <<0, playerY + playerH - 120, 0, playerY + playerH>>)
        g2 == Emit(g1, "addColorStop", <<"0", "rgba(42, 14, 69, 0)">>)
        c2 == Emit(g2, "addColorStop", <<"1", "rgba(42, 14, 69, 1)">>)
    IN  FillRect(SetProp(c2, "fillStyle", "fadeGradient"),
                 0, playerY + playerH - 120, CARD_WIDTH, 140)

\* a rating that is not padded
RatingText_NoPad(player) == NumberToString(player.formNumber)

\* line 184: the text of the rating
RatingText(player) == PadStart(NumberToString(player.formNumber), 2, "0")

\* an abbreviation that is the whole role
RoleAbbr_Whole(player) == ToUpperCase(player.role)

\* line 189: the role abbreviation
RoleAbbr(player) == ToUpperCase(Substring0(player.role, 3))

\* lines 175-229: the left info column
DrawSidebar(c, player, agrasenImg, logoImg) ==
    LET leftColumnCenter == 115
        iconSize == 70
        y0 == 160
        c1 == SetProp(SetProp(c, "shadowColor", "rgba(0,0,0,0.5)"), "shadowBlur", 10)
        c2 == DrawTextWithFit(c1, RatingText(player), leftColumnCenter, y0, 100, 80,
                              "Oswald", "700", "#ffd700").c
        y1 == y0 + 40
        c3 == SetProp(SetProp(SetFont(c2, "600", 40, "Bebas Neue"),
                              "fillStyle", "#ffffff"), "textAlign", "center")
        c4 == FillText(c3, RoleAbbr(player), leftColumnCenter, y1)
        y2 == y1 + 30
        c5 == PathOp(PathOp(BeginPath(c4), "moveTo", <<leftColumnCenter - 30, y2>>),
                     "lineTo", <<leftColumnCenter + 30, y2>>)
        c6 == SetProp(SetProp(SetProp(c5, "strokeStyle", "#ffffff"), "lineWidth", 2),
                      "globalAlpha", "0.5")
        c7 == SetProp(Stroke(c6), "globalAlpha", "1.0")
        y3 == y2 + 40
        c8 == PathOp(BeginPath(Save(c7)), "arc",
                     <<leftColumnCenter, y3 + iconSize \div 2, iconSize \div 2, 0, "2pi">>)
        c9 == Clip(PathOp(c8, "closePath", <<>>))
        c10 == Restore(DrawImage(c9, agrasenImg, leftColumnCenter - iconSize \div 2, y3,
                                 iconSize, iconSize))
        c11 == PathOp(BeginPath(c10), "arc",
                      <<leftColumnCenter, y3 + iconSize \div 2, iconSize \div 2, 0, "2pi">>)
        c12 == Stroke(SetProp(SetProp(c11, "lineWidth", 2), "strokeStyle", "#ffd700"))
        y4 == y3 + iconSize + 20
    IN  DrawImage(c12, logoImg, leftColumnCenter - iconSize \div 2, y4, iconSize, iconSize)

\* a name drawn without the restore of line 239
DrawName_NoRestore(c, player) ==
    LET nameY == 530
        c1 == SetProp(SetProp(Save(c), "shadowColor", "black"), "shadowBlur", 4)
    IN  DrawTextWithFit(c1, ToUpperCase(player.name), CARD_WIDTH \div 2, nameY,
                        CARD_WIDTH - 120, 60, "Bebas Neue", "400", "#ffd700").c

\* lines 231-239: the player name
DrawName(c, player) ==
    LET nameY == 530
        c1 == SetProp(SetProp(Save(c), "shadowColor", "black"), "shadowBlur", 4)
        c2 == DrawTextWithFit(c1, ToUpperCase(player.name), CARD_WIDTH \div 2, nameY,
                              CARD_WIDTH - 120, 60, "Bebas Neue", "400", "#ffd700").c
    IN  Restore(c2)

\* lines 246-265: drawStat
DrawStat(c, label, value, y) ==
    LET c1 == PathOp(PathOp(BeginPath(c), "moveTo", <<(CARD_WIDTH * 2) \div 10, y - 30>>),
                     "lineTo", <<(CARD_WIDTH * 8) \div 10, y - 30>>)
        c2 == SetProp(SetProp(SetProp(c1, "strokeStyle", "#ffd700"), "lineWidth", 1),
                      "globalAlpha", "0.3")
        c3 == SetProp(Stroke(c2), "globalAlpha", "1.0")
        c4 == SetProp(SetFont(SetProp(c3, "textAlign", "center"), "400", 20, "Bebas Neue"),
                      "fillStyle", "#ffd700")
        c5 == FillText(c4, label, CARD_WIDTH \div 2, y - 5)
    IN  DrawTextWithFit(c5, ToUpperCase(value), CARD_WIDTH \div 2, y + 25,
                        CARD_WIDTH - 160, 24, "Montserrat", "600", "#ffffff").c

\* lines 241-269: the three stat rows
DrawStats(c, player) ==
    LET statsStartY == 590
        statsGap == 58
        c1 == DrawStat(c, <<"R", "O", "L", "E">>, player.role, statsStartY)
        c2 == DrawStat(c1, <<"B", "A", "T", "T", "I", "N", "G">>, player.battingStyle,
                       statsStartY + statsGap)
    IN  DrawStat(c2, <<"B", "O", "W", "L", "I", "N", "G">>, player.bowlingStyle,
                 statsStartY + statsGap * 2)

\* a border drawn before the clipping scope is ended
DrawBorder_Clipped(c) ==
    LET c2 == DrawShieldPath(Save(c), CARD_WIDTH, CARD_HEIGHT)
        c3 == Stroke(SetProp(SetProp(c2, "lineWidth", 15), "strokeStyle", "#ffd700"))
        c4 == Stroke(SetProp(SetProp(c3, "lineWidth", 2), "strokeStyle", "#fff8dc"))
    IN  Restore(Restore(c4))

\* lines 271-286: end of the clipping scope, the two border strokes
DrawBorder(c) ==
    LET c1 == Restore(c)
        c2 == DrawShieldPath(Save(c1), CARD_WIDTH, CARD_HEIGHT)
        c3 == Stroke(SetProp(SetProp(c2, "lineWidth", 15), "strokeStyle", "#ffd700"))
        c4 == Stroke(SetProp(SetProp(c3, "lineWidth", 2), "strokeStyle", "#fff8dc"))
    IN  Restore(c4)

\* lines 128-286 on the canvas of lines 114-117, statement after statement:
\* each stage works on the value the stage before it produced
DrawCard(c, player, playerImg, agrasenImg, logoImg, rnd) ==
    LET s1 == {DrawBackground(c, rnd)}
        s2 == {DrawPlayerPhoto(x, playerImg) : x \in s1}
        s3 == {DrawSidebar(x, player, agrasenImg, logoImg) : x \in s2}
        s4 == {DrawName(x, player) : x \in s3}
        s5 == {DrawStats(x, player) : x \in s4}
        s6 == {DrawBorder(x) : x \in s5}
    IN  CHOOSE x \in s6 : TRUE

-----------------------------------------------------------------------------
(* generateCard, src/services/cardGenerator.ts:109-289 *)

\* no generateCard call
NoCall == [pc |-> "none"]

\* a generateCard that refuses a player without a photo
StartGenerateCard_RequiresPhoto(player, agrasenUrl, logoUrl, ctxOk, ready) ==
    IF ~ctxOk \/ player.imageUrl = <<>>
    THEN [pc |-> "failed",
          error |-> IF ~ctxOk THEN "Could not get canvas context" ELSE "No player image",
          player |-> player, agrasenUrl |-> agrasenUrl, logoUrl |-> logoUrl,
          canvas |-> NewCanvas(CARD_WIDTH, CARD_HEIGHT), loads |-> <<>>]
    ELSE [pc |-> "loading", error |-> "",
          player |-> player, agrasenUrl |-> agrasenUrl, logoUrl |-> logoUrl,
          canvas |-> NewCanvas(CARD_WIDTH, CARD_HEIGHT),
          loads |-> <<LoadImage(player.imageUrl, ctxOk, ready),
                      LoadImage(agrasenUrl, ctxOk, ready),
                      LoadImage(logoUrl, ctxOk, ready)>>]

\* lines 114-126, up to the await: the canvas, the context, the three
\* loadImage calls.  ctxOk: getContext('2d') of the card canvas returned a
\* context (the placeholder canvases of the same call then get theirs);
\* ready: as in CreatePlaceholder.
StartGenerateCard(player, agrasenUrl, logoUrl, ctxOk, ready) ==
    IF ~ctxOk
    THEN [pc |-> "failed", error |-> "Could not get canvas context",
          player |-> player, agrasenUrl |-> agrasenUrl, logoUrl |-> logoUrl,
          canvas |-> NewCanvas(CARD_WIDTH, CARD_HEIGHT), loads |-> <<>>]
    ELSE [pc |-> "loading", error |-> "",
          player |-> player, agrasenUrl |-> agrasenUrl, logoUrl |-> logoUrl,
          canvas |-> NewCanvas(CARD_WIDTH, CARD_HEIGHT),
          loads |-> <<LoadImage(player.imageUrl, ctxOk, ready),
                      LoadImage(agrasenUrl, ctxOk, ready),
                      LoadImage(logoUrl, ctxOk, ready)>>]

\* a join that lets go at the first fulfilled promise (Promise.race)
AllResolved_First(g) == \E k \in 1..3 : g.loads[k].state = "fulfilled"

\* the join of Promise.all (line 122): every promise is fulfilled
AllResolved(g) == \A k \in 1..3 : g.loads[k].state = "fulfilled"

\* lines 128-288, the continuation of the await
FinishGenerateCard(g, rnd) ==
    LET c == DrawCard(g.canvas, g.player, g.loads[1].value, g.loads[2].value,
                      g.loads[3].value, rnd)
        enc == ToDataURL(c)
    IN  IF enc.ok
        THEN [g EXCEPT !.pc = "returned", !.canvas = c] @@ [result |-> enc.url]
        ELSE [g EXCEPT !.pc = "failed", !.canvas = c, !.error = enc.error]

\* A continuation is due: it runs before any task (load event, user action).
MicrotaskPending ==
    \E r \in 1..Len(gen) :
        \/ gen[r].pc = "loading" /\ AllResolved(gen[r])
        \/ gen[r].pc \in {"returned", "failed"} /\ runs[r].pc = "awaiting"

\* the values Math.random() * CARD_WIDTH of the texture loop (lines 150-151):
\* what the generator of an execution yields for one card
RandomA == <<10, 590, 120, 480, 300, 300, 450, 20, 599, 0>>
RandomB == <<0, 0, 77, 310, 599, 599, 205, 12, 444, 500>>
RandomLines == {RandomA, RandomB}

\* the load of the k-th image of call r signals success (onload)
ImgOnLoad(r, k) ==
    /\ ~MicrotaskPending
    /\ gen[r].pc = "loading"
    /\ gen[r].loads[k].state = "pending"
    /\ gen[r].loads[k].elementSrc \in env.net
    /\ \E cors \in BOOLEAN :
         /\ LoadSucceedsWith(gen[r].loads[k], cors)
         /\ gen' = [gen EXCEPT ![r].loads[k] = OnLoad(@, cors)]
    /\ UNCHANGED <<assets, players, generatedCards, status, errorMessage, selectedCard,
                   parse, runs, env, fit, scout>>

\* the load of the k-th image of call r signals failure (onerror)
ImgOnError(r, k) ==
    /\ ~MicrotaskPending
    /\ gen[r].pc = "loading"
    /\ gen[r].loads[k].state = "pending"
    /\ gen[r].loads[k].elementSrc \notin env.net
    /\ gen' = [gen EXCEPT ![r].loads[k] = OnError(@, TRUE, env.available)]
    /\ UNCHANGED <<assets, players, generatedCards, status, errorMessage, selectedCard,
                   parse, runs, env, fit, scout>>

\* the browser finishes decoding a placeholder image that was returned before
\* it was loaded; its data: URL is then in the list of available images
PlaceholderDecoded(r, k) ==
    /\ ~MicrotaskPending
    /\ gen[r].pc = "loading"
    /\ gen[r].loads[k].state = "fulfilled"
    /\ ~gen[r].loads[k].value.complete
    /\ gen' = [gen EXCEPT ![r].loads[k].value.complete = TRUE]
    /\ env' = [env EXCEPT !.available = TRUE]
    /\ UNCHANGED <<assets, players, generatedCards, status, errorMessage, selectedCard,
                   parse, runs, fit, scout>>

\* the continuation of the await of line 122: draw, encode, return or throw
GenDraw(r) ==
    /\ gen[r].pc = "loading"
    /\ AllResolved(gen[r])
    /\ gen' = [gen EXCEPT ![r] = FinishGenerateCard(@, env.random)]
    /\ UNCHANGED <<assets, players, generatedCards, status, errorMessage, selectedCard,
                   parse, runs, env, fit, scout>>

-----------------------------------------------------------------------------
(* Example inputs *)

HttpUrl == <<"h", "t", "t", "p", ":", "x">>
FileName == <<"k", ".", "j", "p", "g">>
DottedName == <<"k", ".", "v", ".", "j", "p", "g">>
AgrasenDataUrl == <<"d", "a", "t", "a", ":", "A">>
LogoDataUrl == <<"d", "a", "t", "a", ":", "L">>

\* the sources an Image element may be given
Sources == {HttpUrl, FileName, AgrasenDataUrl, LogoDataUrl}

MakePlayer(index, name, role, bat, bowl, form, url) ==
    [id |-> <<"player-", index>>, name |-> name, role |-> role, battingStyle |-> bat,
     bowlingStyle |-> bowl, formNumber |-> form, imageUrl |-> url, manualImage |-> Null]

Str_virat == <<"v", "i", "r", "a", "t">>
Str_batsman == <<"b", "a", "t", "s", "m", "a", "n">>
Str_right == <<"r", "i", "g", "h", "t">>
Str_na == <<"N", "/", "A">>

\* the players of the rows of the example Excel files: two rows, one row, and
\* a sheet without rows
ExcelRows(f) ==
    IF f = "roster.xlsx"
    THEN <<MakePlayer(0, Str_virat, Str_batsman, Str_right, Str_na, 96, <<>>),
           MakePlayer(1, Repeat("w", 14), <<"a", "r">>, Str_batsman, Str_na,
                      100, HttpUrl)>>
    ELSE IF f = "squad.xlsx"
    THEN <<MakePlayer(0, Repeat("k", 9), Str_batsman, Str_right, Str_right, 5,
                      FileName)>>
    ELSE IF f = "team.xlsx"
    THEN <<MakePlayer(0, Str_virat, Str_batsman, Str_right, Str_na, 96, DottedName),
           MakePlayer(1, Repeat("k", 9), <<"a", "r">>, Str_right, Str_right, 5,
                      FileName)>>
    ELSE <<>>

ExcelFiles == {"roster.xlsx", "squad.xlsx"}
TeamFiles == {"team.xlsx"}
OldExcelFiles == {"roster.xlsx", "empty.xlsx"}

\* a player whose texts stay too wide at the smallest font size
LongPlayer ==
    MakePlayer(2, Repeat("w", 60), <<"a", "r">>, Repeat("m", 53), Str_na, 100, HttpUrl)

\* a player whose texts are all empty and whose form number is negative
BlankPlayer == MakePlayer(3, <<>>, <<>>, <<>>, <<>>, -7, HttpUrl)
\* players with a short role, and the form numbers 0 and 7
ZeroPlayer == MakePlayer(4, Str_virat, <<"w", "k">>, Str_right, Str_na, 0, HttpUrl)
DigitPlayer == MakePlayer(5, Str_virat, <<"b">>, Str_right, Str_na, 7, HttpUrl)
NoFile == ""

-----------------------------------------------------------------------------
(* src/App.tsx:271-412, the App component *)

EmptyMap == [k \in {} |-> <<>>]

\* assets.localImageMap[key], '' when the key is absent
MapGet(m, key) == IF key \in DOMAIN m THEN m[key] ELSE <<>>

\* getPlayerImageSource, lines 295-315 (Null for null)
GetPlayerImageSource(player, localImageMap) ==
    LET excelValue == Trim(player.imageUrl)
        nameNoExt == BeforeFirstDot(excelValue)
    IN  IF player.manualImage # <<>> THEN player.manualImage
        ELSE IF MapGet(localImageMap, excelValue) # <<>> THEN MapGet(localImageMap, excelValue)
        ELSE IF MapGet(localImageMap, nameNoExt) # <<>> THEN MapGet(localImageMap, nameNoExt)
        ELSE IF \/ StartsWith(player.imageUrl, <<"h", "t", "t", "p">>)
                \/ StartsWith(player.imageUrl, <<"d", "a", "t", "a", ":">>)
             THEN player.imageUrl
        ELSE Null

\* lines 344-350: the arguments of the generateCard call for a player
\* (getPlayerImageSource(player) || '' on a copy of the record)
CardPlayer(player, localImageMap) ==
    [player EXCEPT !.imageUrl = GetPlayerImageSource(player, localImageMap)]

NoParse == [f \in ExcelFiles \cup TeamFiles |-> 0]

RECURSIVE SumOver(_, _)
SumOver(f, S) ==
    IF S = {} THEN 0 ELSE LET x == CHOOSE y \in S : TRUE IN f[x] + SumOver(f, S \ {x})

PendingParses == SumOver(parse, DOMAIN parse)

\* a task: no continuation is due
Task == ~MicrotaskPending

\* lines 444-447: the Excel dropzone's onFileSelect
SelectExcelFile(f) ==
    /\ Task
    /\ assets' = [assets EXCEPT !.excelFile = f]
    /\ status' = "idle"
    /\ UNCHANGED <<players, generatedCards, errorMessage, selectedCard, parse, runs, gen,
                   env, fit, scout>>

\* lines 456-459: the portrait dropzone (fileToDataUrl of the file, then a
\* functional setAssets)
SelectAgrasenImage ==
    /\ Task
    /\ assets' = [assets EXCEPT !.agrasenImage = AgrasenDataUrl]
    /\ UNCHANGED <<players, generatedCards, status, errorMessage, selectedCard, parse,
                   runs, gen, env, fit, scout>>

\* lines 466-469: the logo dropzone
SelectLogoImage ==
    /\ Task
    /\ assets' = [assets EXCEPT !.logoImage = LogoDataUrl]
    /\ UNCHANGED <<players, generatedCards, status, errorMessage, selectedCard, parse,
                   runs, gen, env, fit, scout>>

\* lines 272-276: the assets of the first render
NoAssets ==
    [excelFile |-> NoFile, agrasenImage |-> Null, logoImage |-> Null,
     localImageMap |-> EmptyMap]

\* lines 492-505: the Parse button is rendered and enabled
ParseButtonEnabled ==
    /\ status \in {"idle", "parsing", "error"}
    /\ assets.excelFile # NoFile
    /\ status # "parsing"

\* lines 317-323: handleParseData up to its await
HandleParseData ==
    /\ Task
    /\ ParseButtonEnabled
    /\ PendingParses < MaxParses
    /\ status' = "parsing"
    /\ errorMessage' = NoMessage
    /\ parse' = [parse EXCEPT ![assets.excelFile] = @ + 1]
    /\ UNCHANGED <<assets, players, generatedCards, selectedCard, runs, gen, env, fit, scout>>

\* lines 323-325: parseExcelFile resolved; handleParseData resumes
ParseResolved(f) ==
    /\ Task
    /\ parse[f] > 0
    /\ ExcelRows(f) # <<>>
    /\ parse' = [parse EXCEPT ![f] = @ - 1]
    /\ players' = ExcelRows(f)
    /\ status' = "review"
    /\ UNCHANGED <<assets, generatedCards, errorMessage, selectedCard, runs, gen, env, fit, scout>>

\* lines 326-330: parseExcelFile rejected (the file could not be read)
ParseRejected(f) ==
    /\ Task
    /\ parse[f] > 0
    /\ parse' = [parse EXCEPT ![f] = @ - 1]
    /\ status' = "error"
    /\ errorMessage' = "Failed to read file"
    /\ UNCHANGED <<assets, players, generatedCards, selectedCard, runs, gen, env, fit, scout>>

\* lines 492 and 506-519: the Forge button is rendered and enabled
ForgeButtonEnabled ==
    /\ status \notin {"idle", "parsing", "error"}
    /\ status # "generating"

\* an activation of the batch handler that returned: its locals are gone
RunOver(pc) ==
    [pc |-> pc, players |-> <<>>, excelFile |-> NoFile, agrasenImage |-> Null,
     logoImage |-> Null, localImageMap |-> EmptyMap, i |-> 0, cards |-> <<>>]

\* line 352: the card of a player
MakeCard(player, dataUrl) == [playerId |-> player.id, dataUrl |-> dataUrl, scoutReport |-> Null]

\* lines 334-337: a required asset is missing
ForgeRejected ==
    /\ Task
    /\ ForgeButtonEnabled
    /\ assets.agrasenImage = Null \/ assets.logoImage = Null
    /\ errorMessage' = "Please upload the Agrasen Portrait and Tournament Logo before generating."
    /\ UNCHANGED <<assets, players, generatedCards, status, selectedCard, parse, runs,
                   gen, env, fit, scout>>

\* lines 333-350: handleForgeCards up to its first await.  The activation
\* keeps the players and the assets it reads of the render it was created in.
HandleForgeCards ==
    /\ Task
    /\ ForgeButtonEnabled
    /\ Len(runs) < MaxRuns
    /\ assets.agrasenImage # Null /\ assets.logoImage # Null
    /\ IF players = <<>>
       THEN /\ status' = "completed"
            /\ runs' = Append(runs, RunOver("done"))
            /\ gen' = Append(gen, NoCall)
       ELSE /\ status' = "generating"
            /\ runs' = Append(runs, [RunOver("awaiting") EXCEPT
                                        !.players = players,
                                        !.agrasenImage = assets.agrasenImage,
                                        !.logoImage = assets.logoImage,
                                        !.localImageMap = assets.localImageMap,
                                        !.i = 1])
            /\ \E ctxOk \in BOOLEAN :
                 gen' = Append(gen, StartGenerateCard(
                            CardPlayer(players[1], assets.localImageMap),
                            assets.agrasenImage, assets.logoImage, ctxOk, env.available))
    /\ UNCHANGED <<assets, players, generatedCards, errorMessage, selectedCard, parse,
                   env, fit, scout>>

\* a loop that resolves each photo against the players and the map of the
\* latest render instead of those of its own
ForgeNextCard_ReadsLatest(r) ==
    /\ runs[r].pc = "awaiting"
    /\ gen[r].pc = "returned"
    /\ runs[r].i < Len(runs[r].players)
    /\ LET run == runs[r]
           cards == Append(run.cards, MakeCard(run.players[run.i], gen[r].result))
           latest == IF run.i + 1 <= Len(players) THEN players[run.i + 1]
                     ELSE run.players[run.i + 1]
       IN  /\ generatedCards' = cards
           /\ runs' = [runs EXCEPT ![r].cards = cards, ![r].i = run.i + 1]
           /\ \E ctxOk \in BOOLEAN :
                gen' = [gen EXCEPT ![r] = StartGenerateCard(
                           CardPlayer(latest, assets.localImageMap),
                           run.agrasenImage, run.logoImage, ctxOk, env.available)]
    /\ UNCHANGED <<assets, players, status, errorMessage, selectedCard, parse, env, fit, scout>>

\* a loop that stores the resolved source in the player record itself
\* (player.imageUrl = finalSource) and passes that record on
ForgeNextCard_WritesSource(r) ==
    /\ runs[r].pc = "awaiting"
    /\ gen[r].pc = "returned"
    /\ runs[r].i < Len(runs[r].players)
    /\ LET run == runs[r]
           cards == Append(run.cards, MakeCard(run.players[run.i], gen[r].result))
           player == CardPlayer(run.players[run.i + 1], run.localImageMap)
       IN  /\ generatedCards' = cards
           /\ runs' = [runs EXCEPT ![r].cards = cards, ![r].i = run.i + 1,
                                   ![r].players[run.i + 1] = player]
           /\ players' = [j \in 1..Len(players) |->
                             IF players[j] = run.players[run.i + 1] THEN player
                             ELSE players[j]]
           /\ \E ctxOk \in BOOLEAN :
                gen' = [gen EXCEPT ![r] = StartGenerateCard(
                           player, run.agrasenImage, run.logoImage, ctxOk, env.available)]
    /\ UNCHANGED <<assets, status, errorMessage, selectedCard, parse, env, fit, scout>>

\* lines 346-354: generateCard returned; the loop records the card and calls
\* generateCard for the next player
ForgeNextCard(r) ==
    /\ runs[r].pc = "awaiting"
    /\ gen[r].pc = "returned"
    /\ runs[r].i < Len(runs[r].players)
    /\ LET run == runs[r]
           cards == Append(run.cards, MakeCard(run.players[run.i], gen[r].result))
       IN  /\ generatedCards' = cards
           /\ runs' = [runs EXCEPT ![r].cards = cards, ![r].i = run.i + 1]
           /\ \E ctxOk \in BOOLEAN :
                gen' = [gen EXCEPT ![r] = StartGenerateCard(
                           CardPlayer(run.players[run.i + 1], run.localImageMap),
                           run.agrasenImage, run.logoImage, ctxOk, env.available)]
    /\ UNCHANGED <<assets, players, status, errorMessage, selectedCard, parse, env, fit, scout>>

\* lines 346-357: generateCard returned for the last player; the batch ends
ForgeCompleted(r) ==
    /\ runs[r].pc = "awaiting"
    /\ gen[r].pc = "returned"
    /\ runs[r].i = Len(runs[r].players)
    /\ LET run == runs[r]
           cards == Append(run.cards, MakeCard(run.players[run.i], gen[r].result))
       IN  /\ generatedCards' = cards
           /\ selectedCard' = cards[1]
    /\ runs' = [runs EXCEPT ![r] = RunOver("done")]
    /\ gen' = [gen EXCEPT ![r] = NoCall]
    /\ status' = "completed"
    /\ UNCHANGED <<assets, players, errorMessage, parse, env, fit, scout>>

\* a catch block that also drops the cards shown so far
ForgeFailed_ClearsCards(r) ==
    /\ runs[r].pc = "awaiting"
    /\ gen[r].pc = "failed"
    /\ runs' = [runs EXCEPT ![r] = RunOver("error")]
    /\ gen' = [gen EXCEPT ![r] = NoCall]
    /\ status' = "error"
    /\ errorMessage' = gen[r].error
    /\ generatedCards' = <<>>
    /\ UNCHANGED <<assets, players, selectedCard, parse, env, fit, scout>>

\* lines 359-363: generateCard threw; the catch block
ForgeFailed(r) ==
    /\ runs[r].pc = "awaiting"
    /\ gen[r].pc = "failed"
    /\ runs' = [runs EXCEPT ![r] = RunOver("error")]
    /\ gen' = [gen EXCEPT ![r] = NoCall]
    /\ status' = "error"
    /\ errorMessage' = gen[r].error
    /\ UNCHANGED <<assets, players, generatedCards, selectedCard, parse, env, fit, scout>>

\* lines 537-549: the error panel is rendered
ErrorPanelVisible == status = "error"

\* the error message on the screen (Null: none)
RenderedErrorMessage == IF ErrorPanelVisible THEN errorMessage ELSE NoMessage

-----------------------------------------------------------------------------
(* The App: src/App.tsx with src/services/cardGenerator.ts *)

NoFit == [pc |-> "none"]
\* no activation of handleGenerateScoutReport: scouting is false
NoScout == [pc |-> "none"]
NoCard == [playerId |-> <<>>, dataUrl |-> <<>>, scoutReport |-> Null]

\* the App after its first render; the two asset images (data: URLs) load,
\* the host of the players' photos is out of reach
Init ==
    /\ assets = NoAssets
    /\ players = <<>>
    /\ generatedCards = <<>>
    /\ status = "idle"
    /\ errorMessage = NoMessage
    /\ selectedCard = NoCard
    /\ parse = NoParse
    /\ runs = <<>>
    /\ gen = <<>>
    /\ env = [net |-> {AgrasenDataUrl, LogoDataUrl}, available |-> FALSE,
              random |-> RandomA, blobs |-> 0]
    /\ fit = NoFit
    /\ scout = NoScout

Next ==
    \/ \E f \in ExcelFiles : SelectExcelFile(f)
    \/ SelectAgrasenImage
    \/ SelectLogoImage
    \/ HandleParseData
    \/ \E f \in ExcelFiles : ParseResolved(f)
    \/ \E f \in ExcelFiles : ParseRejected(f)
    \/ ForgeRejected
    \/ HandleForgeCards
    \/ \E r \in 1..Len(gen), k \in 1..3 : ImgOnLoad(r, k)
    \/ \E r \in 1..Len(gen), k \in 1..3 : ImgOnError(r, k)
    \/ \E r \in 1..Len(gen), k \in 1..3 : PlaceholderDecoded(r, k)
    \/ \E r \in 1..Len(gen) : GenDraw(r)
    \/ \E r \in 1..Len(runs) : ForgeNextCard(r)
    \/ \E r \in 1..Len(runs) : ForgeCompleted(r)
    \/ \E r \in 1..Len(runs) : ForgeFailed(r)

Spec == Init /\ [][Next]_vars

-----------------------------------------------------------------------------
(* src/App.tsx:11-257, the earlier App component: one Process button parses  *)
(* and generates.  Its parser is src/components/Dropzone.tsx:171-204, which  *)
(* resolves with one player per row, none for a sheet without rows.          *)

\* line 111: the Excel dropzone's onFileSelect
OldSelectExcelFile(f) ==
    /\ Task
    /\ assets' = [assets EXCEPT !.excelFile = f]
    /\ UNCHANGED <<players, generatedCards, status, errorMessage, selectedCard, parse,
                   runs, gen, env, fit, scout>>

\* line 140: the Process button is enabled
ProcessButtonEnabled ==
    /\ assets.excelFile # NoFile
    /\ assets.agrasenImage # Null
    /\ assets.logoImage # Null
    /\ status # "generating"

\* lines 28-34: handleProcess up to its first await
HandleProcess ==
    /\ Task
    /\ ProcessButtonEnabled
    /\ Len(runs) < MaxRuns
    /\ status' = "parsing"
    /\ runs' = Append(runs, [RunOver("parsing") EXCEPT
                                !.excelFile = assets.excelFile,
                                !.agrasenImage = assets.agrasenImage,
                                !.logoImage = assets.logoImage])
    /\ gen' = Append(gen, NoCall)
    /\ UNCHANGED <<assets, players, generatedCards, errorMessage, selectedCard, parse,
                   env, fit, scout>>

\* lines 34-50: parseExcelFile resolved.  With no player the loop body never
\* runs and the handler goes on to COMPLETED; otherwise it calls generateCard
\* for the first player.
ProcessParsed(r) ==
    /\ Task
    /\ runs[r].pc = "parsing"
    /\ LET run == runs[r]
           parsedPlayers == ExcelRows(run.excelFile)
       IN  /\ players' = parsedPlayers
           /\ IF parsedPlayers = <<>>
              THEN /\ status' = "completed"
                   /\ runs' = [runs EXCEPT ![r] = RunOver("done")]
                   /\ gen' = gen
              ELSE /\ status' = "generating"
                   /\ runs' = [runs EXCEPT ![r].pc = "awaiting",
                                           ![r].players = parsedPlayers, ![r].i = 1]
                   /\ \E ctxOk \in BOOLEAN :
                        gen' = [gen EXCEPT ![r] = StartGenerateCard(
                                   parsedPlayers[1], run.agrasenImage,
                                   run.logoImage, ctxOk, env.available)]
    /\ UNCHANGED <<assets, generatedCards, errorMessage, selectedCard, parse, env, fit, scout>>

\* lines 52-55: parseExcelFile rejected (reader.onerror); the catch block
ProcessParseFailed(r) ==
    /\ Task
    /\ runs[r].pc = "parsing"
    /\ status' = "error"
    /\ runs' = [runs EXCEPT ![r] = RunOver("error")]
    /\ UNCHANGED <<assets, players, generatedCards, errorMessage, selectedCard, parse,
                   gen, env, fit, scout>>

\* lines 41-46: generateCard returned; record the card, call for the next player
ProcessNextCard(r) ==
    /\ runs[r].pc = "awaiting"
    /\ gen[r].pc = "returned"
    /\ runs[r].i < Len(runs[r].players)
    /\ LET run == runs[r]
           cards == Append(run.cards, MakeCard(run.players[run.i], gen[r].result))
       IN  /\ generatedCards' = cards
           /\ runs' = [runs EXCEPT ![r].cards = cards, ![r].i = run.i + 1]
           /\ \E ctxOk \in BOOLEAN :
                gen' = [gen EXCEPT ![r] = StartGenerateCard(
                           run.players[run.i + 1], run.agrasenImage,
                           run.logoImage, ctxOk, env.available)]
    /\ UNCHANGED <<assets, players, status, errorMessage, selectedCard, parse, env, fit, scout>>

\* lines 41-50: generateCard returned for the last player
ProcessCompleted(r) ==
    /\ runs[r].pc = "awaiting"
    /\ gen[r].pc = "returned"
    /\ runs[r].i = Len(runs[r].players)
    /\ LET run == runs[r]
           cards == Append(run.cards, MakeCard(run.players[run.i], gen[r].result))
       IN  /\ generatedCards' = cards
           /\ selectedCard' = cards[1]
    /\ runs' = [runs EXCEPT ![r] = RunOver("done")]
    /\ gen' = [gen EXCEPT ![r] = NoCall]
    /\ status' = "completed"
    /\ UNCHANGED <<assets, players, errorMessage, parse, env, fit, scout>>

\* lines 52-55: generateCard threw; the catch block
ProcessFailed(r) ==
    /\ runs[r].pc = "awaiting"
    /\ gen[r].pc = "failed"
    /\ runs' = [runs EXCEPT ![r] = RunOver("error")]
    /\ gen' = [gen EXCEPT ![r] = NoCall]
    /\ status' = "error"
    /\ UNCHANGED <<assets, players, generatedCards, errorMessage, selectedCard, parse,
                   env, fit, scout>>

NextOld ==
    \/ \E f \in OldExcelFiles : OldSelectExcelFile(f)
    \/ SelectAgrasenImage
    \/ SelectLogoImage
    \/ HandleProcess
    \/ \E r \in 1..Len(runs) : ProcessParsed(r)
    \/ \E r \in 1..Len(runs) : ProcessParseFailed(r)
    \/ \E r \in 1..Len(gen), k \in 1..3 : ImgOnLoad(r, k)
    \/ \E r \in 1..Len(gen), k \in 1..3 : ImgOnError(r, k)
    \/ \E r \in 1..Len(gen), k \in 1..3 : PlaceholderDecoded(r, k)
    \/ \E r \in 1..Len(gen) : GenDraw(r)
    \/ \E r \in 1..Len(runs) : ProcessNextCard(r)
    \/ \E r \in 1..Len(runs) : ProcessCompleted(r)
    \/ \E r \in 1..Len(runs) : ProcessFailed(r)

\* the earlier App starts as the later one does
SpecOld == Init /\ [][NextOld]_vars

-----------------------------------------------------------------------------
(* One generateCard call on its own, with every combination of inputs and of *)
(* outcomes of the three loads                                               *)

\* the players, portraits and logos of the direct calls
CardPlayers ==
    {[p EXCEPT !.imageUrl = u] : p \in {ExcelRows("roster.xlsx")[1], LongPlayer, BlankPlayer,
                                       ZeroPlayer, DigitPlayer},
                                 u \in {Null, HttpUrl}}
CardPortraits == {Null, AgrasenDataUrl}
CardLogos == {Null, LogoDataUrl}

\* any of the sources may or may not load; the placeholder may or may not be
\* available already; either run of random values
InitCard ==
    /\ assets = NoAssets
    /\ players = <<>>
    /\ generatedCards = <<>>
    /\ status = "idle"
    /\ errorMessage = NoMessage
    /\ selectedCard = NoCard
    /\ parse = NoParse
    /\ runs = <<>>
    /\ gen = <<>>
    /\ \E net \in SUBSET {HttpUrl, AgrasenDataUrl, LogoDataUrl}, available \in BOOLEAN,
          random \in RandomLines :
         env = [net |-> net, available |-> available, random |-> random,
                blobs |-> 0]
    /\ fit = NoFit
    /\ scout = NoScout

\* generateCard(player, agrasenUrl, logoUrl), lines 109-126, called by a
\* caller that is not a batch
CallGenerateCard ==
    /\ gen = <<>>
    /\ \E player \in CardPlayers, agrasenUrl \in CardPortraits, logoUrl \in CardLogos,
          ctxOk \in BOOLEAN :
         gen' = <<StartGenerateCard(player, agrasenUrl, logoUrl, ctxOk, env.available)>>
    /\ runs' = <<RunOver("direct")>>
    /\ UNCHANGED <<assets, players, generatedCards, status, errorMessage, selectedCard,
                   parse, env, fit, scout>>

NextCard ==
    \/ CallGenerateCard
    \/ \E r \in 1..Len(gen), k \in 1..3 : ImgOnLoad(r, k)
    \/ \E r \in 1..Len(gen), k \in 1..3 : ImgOnError(r, k)
    \/ \E r \in 1..Len(gen), k \in 1..3 : PlaceholderDecoded(r, k)
    \/ \E r \in 1..Len(gen) : GenDraw(r)

SpecCard == InitCard /\ [][NextCard]_vars

-----------------------------------------------------------------------------
(* One drawTextWithFit call on its own *)

\* the texts: n wide letters
FitTexts == {Repeat("w", n) : n \in 0..MaxTextLen}

\* <<maxWidth, initialFontSize>>: the three call sites (lines 184, 238, 264)
\* and other pairs
FitCalls == {<<100, 80>>, <<480, 60>>, <<440, 24>>, <<100, 15>>, <<100, 12>>,
             <<100, 14>>, <<46, 17>>}

\* drawTextWithFit(ctx, text, 300, 700, maxWidth, initialFontSize, 'Cinzel',
\* '700', '#ffffff') on a fresh card canvas
CallDrawTextWithFit ==
    /\ fit = NoFit
    /\ \E text \in FitTexts, call \in FitCalls :
         fit' = [pc |-> "returned", text |-> text, maxWidth |-> call[1],
                 initialFontSize |-> call[2],
                 out |-> DrawTextWithFit(NewCanvas(CARD_WIDTH, CARD_HEIGHT), text, 300, 700,
                                         call[1], call[2], "Cinzel", "700", "#ffffff")]
    /\ UNCHANGED <<assets, players, generatedCards, status, errorMessage, selectedCard,
                   parse, runs, gen, env, scout>>

NextFit == CallDrawTextWithFit

SpecFit == Init /\ [][NextFit]_vars


-----------------------------------------------------------------------------
(* The App with its photo uploads: src/App.tsx:396-412, 470-483, 569-612 *)

MaxObjectUrls == 2
MaxBatchRuns == 1

\* URL.createObjectURL: the n-th object URL of the page
ObjectUrl(n) == <<"b", "l", "o", "b", ":">> \o NatToString(n)

\* the names of the photo files the user has at hand
UploadFiles == {FileName, <<"k", ".", "v", ".", "p", "n", "g">>, <<"k">>}

\* the files among them that decode as images (a dropped file need not)
ImageFiles == UploadFiles \ {<<"k">>}

\* the drops on the batch dropzone: one file, or two files
UploadBatches ==
    {<<f>> : f \in UploadFiles}
        \cup {<<FileName, <<"k">>>>, <<<<"k">>, <<"k", ".", "v", ".", "p", "n", "g">>>>}

\* m with key k set to v
MapPut(m, k, v) == [x \in DOMAIN m \cup {k} |-> IF x = k THEN v ELSE m[x]]

\* lines 398-403: the forEach body for the file at index j, whose object URL
\* is the (first + j)-th of the page
RECURSIVE AddFiles(_, _, _, _)
AddFiles(newMap, files, j, first) ==
    IF j > Len(files) THEN newMap
    ELSE LET objectUrl == ObjectUrl(first + j)
             withName == MapPut(newMap, files[j], objectUrl)
             nameWithoutExt == BeforeLastDot(files[j])
         IN  AddFiles(IF nameWithoutExt # <<>>
                      THEN MapPut(withName, nameWithoutExt, objectUrl)
                      ELSE withName,
                      files, j + 1, first)

\* lines 396-405: handleBatchImageUpload (the dropzone is on the screen in
\* every status)
HandleBatchImageUpload(files) ==
    /\ Task
    /\ env.blobs + Len(files) <= MaxObjectUrls
    /\ assets' = [assets EXCEPT
                     !.localImageMap = AddFiles(assets.localImageMap, files, 1, env.blobs)]
    /\ env' = [env EXCEPT !.blobs = @ + Len(files),
                          !.net = @ \cup {ObjectUrl(env.blobs + j) :
                                             j \in {x \in 1..Len(files) :
                                                       files[x] \in ImageFiles}}]
    /\ UNCHANGED <<players, generatedCards, status, errorMessage, selectedCard, parse,
                   runs, gen, fit, scout>>

\* lines 407-412 with 569 and 603-611: handleIndividualUpload from the
\* roster editor, which is rendered in REVIEW only
HandleIndividualUpload(playerId) ==
    /\ Task
    /\ status = "review"
    /\ \E i \in 1..Len(players) : players[i].id = playerId
    /\ env.blobs < MaxObjectUrls
    /\ LET objectUrl == ObjectUrl(env.blobs + 1)
       IN  /\ players' = [i \in 1..Len(players) |->
                             IF players[i].id = playerId
                             THEN [players[i] EXCEPT !.manualImage = objectUrl]
                             ELSE players[i]]
           /\ env' = [env EXCEPT !.blobs = @ + 1, !.net = @ \cup {objectUrl}]
    /\ UNCHANGED <<assets, generatedCards, status, errorMessage, selectedCard, parse,
                   runs, gen, fit, scout>>

PlayerIds == {ExcelRows("team.xlsx")[i].id : i \in 1..2}

NextUpload ==
    \/ \E f \in TeamFiles : SelectExcelFile(f)
    \/ SelectAgrasenImage
    \/ SelectLogoImage
    \/ HandleParseData
    \/ \E f \in TeamFiles : ParseResolved(f)
    \/ \E files \in UploadBatches : HandleBatchImageUpload(files)
    \/ \E playerId \in PlayerIds : HandleIndividualUpload(playerId)
    \/ ForgeRejected
    \/ Len(runs) < MaxBatchRuns /\ HandleForgeCards
    \/ \E r \in 1..Len(gen), k \in 1..3 : ImgOnLoad(r, k)
    \/ \E r \in 1..Len(gen), k \in 1..3 : ImgOnError(r, k)
    \/ \E r \in 1..Len(gen), k \in 1..3 : PlaceholderDecoded(r, k)
    \/ \E r \in 1..Len(gen) : GenDraw(r)
    \/ \E r \in 1..Len(runs) : ForgeNextCard(r)
    \/ \E r \in 1..Len(runs) : ForgeCompleted(r)
    \/ \E r \in 1..Len(runs) : ForgeFailed(r)

SpecUpload == Init /\ [][NextUpload]_vars

-----------------------------------------------------------------------------
(* Two generateCard calls, one after the other, with the same arguments *)

\* generateCard called again, once the first call has returned or thrown,
\* with the arguments of the first call; Math.random goes on with other
\* values
CallGenerateCardAgain ==
    /\ Len(gen) = 1
    /\ gen[1].pc \in {"returned", "failed"}
    /\ \E ctxOk \in BOOLEAN :
         gen' = Append(gen, StartGenerateCard(gen[1].player, gen[1].agrasenUrl,
                                              gen[1].logoUrl, ctxOk, env.available))
    /\ \E random \in RandomLines : env' = [env EXCEPT !.random = random]
    /\ runs' = Append(runs, RunOver("direct"))
    /\ UNCHANGED <<assets, players, generatedCards, status, errorMessage, selectedCard,
                   parse, fit, scout>>

\* the browser finishes decoding the placeholder image of a call that has
\* returned meanwhile
PlaceholderDecodedLater(r, k) ==
    /\ ~MicrotaskPending
    /\ gen[r].pc = "returned"
    /\ gen[r].loads[k].value.kind = "placeholder"
    /\ ~gen[r].loads[k].value.complete
    /\ gen' = [gen EXCEPT ![r].loads[k].value.complete = TRUE]
    /\ env' = [env EXCEPT !.available = TRUE]
    /\ UNCHANGED <<assets, players, generatedCards, status, errorMessage, selectedCard,
                   parse, runs, fit, scout>>

\* the players of the repeated calls
TwicePlayers == {p \in CardPlayers : p.id = ExcelRows("roster.xlsx")[1].id}

NextTwice ==
    \/ CallGenerateCard /\ gen'[1].player \in TwicePlayers
    \/ CallGenerateCardAgain
    \/ \E r \in 1..Len(gen), k \in 1..3 : ImgOnLoad(r, k)
    \/ \E r \in 1..Len(gen), k \in 1..3 : ImgOnError(r, k)
    \/ \E r \in 1..Len(gen), k \in 1..3 : PlaceholderDecoded(r, k)
    \/ \E r \in 1..Len(gen), k \in 1..3 : PlaceholderDecodedLater(r, k)
    \/ \E r \in 1..Len(gen) : GenDraw(r)

SpecTwice == InitCard /\ [][NextTwice]_vars

-----------------------------------------------------------------------------
(* The App with its gallery: src/App.tsx:379-394 and 633-690 *)

\* what getScoutReport resolves with (it never rejects: lines 294-321 of
\* src/services/cardGenerator.ts)
Reports == {<<"b", "i", "o">>}

\* line 634: the gallery is rendered, with a card to show
GalleryVisible == status \in {"generating", "completed"} /\ generatedCards # <<>>

\* lines 678-680: a click on the i-th thumbnail of the gallery
SelectCard(i) ==
    /\ Task
    /\ GalleryVisible
    /\ i \in 1..Len(generatedCards)
    /\ selectedCard' = generatedCards[i]
    /\ UNCHANGED <<assets, players, generatedCards, status, errorMessage, parse, runs,
                   gen, env, fit, scout>>

\* lines 379-385: handleGenerateScoutReport up to its await.  The activation
\* keeps the generatedCards and the selectedCard of the render it was
\* created in.
HandleGenerateScoutReport ==
    /\ Task
    /\ GalleryVisible
    /\ selectedCard # NoCard
    /\ scout.pc = "none"
    /\ \E i \in 1..Len(players) : players[i].id = selectedCard.playerId
    /\ scout' = [pc |-> "awaiting", generatedCards |-> generatedCards,
                 selectedCard |-> selectedCard]
    /\ UNCHANGED <<assets, players, generatedCards, status, errorMessage, selectedCard,
                   parse, runs, gen, env, fit>>

\* lines 385-393: getScoutReport resolved; handleGenerateScoutReport resumes
ScoutReportResolved(report) ==
    /\ Task
    /\ scout.pc = "awaiting"
    /\ LET updatedCards ==
               [i \in 1..Len(scout.generatedCards) |->
                   IF scout.generatedCards[i].playerId = scout.selectedCard.playerId
                   THEN [scout.generatedCards[i] EXCEPT !.scoutReport = report]
                   ELSE scout.generatedCards[i]]
           found == {i \in 1..Len(updatedCards) :
                        updatedCards[i].playerId = scout.selectedCard.playerId}
       IN  /\ generatedCards' = updatedCards
           /\ selectedCard' = IF found = {} THEN selectedCard
                              ELSE updatedCards[CHOOSE i \in found : \A j \in found : i <= j]
    /\ scout' = NoScout
    /\ UNCHANGED <<assets, players, status, errorMessage, parse, runs, gen, env, fit>>

\* the Excel files of the gallery runs
GalleryFiles == {"roster.xlsx"}

NextScout ==
    \/ \E f \in GalleryFiles : SelectExcelFile(f)
    \/ SelectAgrasenImage
    \/ SelectLogoImage
    \/ HandleParseData
    \/ \E f \in GalleryFiles : ParseResolved(f)
    \/ ForgeRejected
    \/ Len(runs) < MaxBatchRuns /\ HandleForgeCards
    \/ \E i \in 1..2 : SelectCard(i)
    \/ HandleGenerateScoutReport
    \/ \E report \in Reports : ScoutReportResolved(report)
    \/ \E r \in 1..Len(gen), k \in 1..3 : ImgOnLoad(r, k)
    \/ \E r \in 1..Len(gen), k \in 1..3 : ImgOnError(r, k)
    \/ \E r \in 1..Len(gen), k \in 1..3 : PlaceholderDecoded(r, k)
    \/ \E r \in 1..Len(gen) : GenDraw(r)
    \/ \E r \in 1..Len(runs) : ForgeNextCard(r)
    \/ \E r \in 1..Len(runs) : ForgeCompleted(r)
    \/ \E r \in 1..Len(runs) : ForgeFailed(r)

SpecScout == Init /\ [][NextScout]_vars
-----------------------------------------------------------------------------
(* Properties of loadImage and generateCard *)

\* the generateCard calls that have begun
Calls == {r \in 1..Len(gen) : gen[r].pc # "none"}

\* the loadImage promises of those calls
Loads == UNION {{gen[r].loads[k] : k \in 1..Len(gen[r].loads)} : r \in Calls}

IsImage(v) == v.kind \in {"loaded", "placeholder"}

\* C1: loadImage never throws and its promise never rejects: whatever the
\* source (empty, or one whose load signals an error), the promise is pending
\* or fulfilled, a fulfilled promise holds an image, and once the call has
\* taken its error path (it logged) the promise is fulfilled.
C1_LoadImageNeverRejects ==
    \A p \in Loads :
        /\ p.state \in {"pending", "fulfilled"}
        /\ p.state = "fulfilled" => IsImage(p.value)
        /\ (p.src = <<>> \/ p.warned # <<>>) => p.state = "fulfilled"

\* C1 witness: within one call, a promise of an empty source and a promise of
\* a source whose load signalled an error are both fulfilled with an image
C1_Witness ==
    \E r \in Calls :
        \E p, q \in {gen[r].loads[k] : k \in 1..Len(gen[r].loads)} :
            /\ p.src = <<>> /\ p.state = "fulfilled" /\ IsImage(p.value)
            /\ q.src # <<>> /\ q.warned # <<>> /\ q.state = "fulfilled" /\ IsImage(q.value)

\* C2: every image loadImage resolves with is fully loaded (decoded and
\* drawable) when the promise resolves, the placeholder included.
C2_ResolvedImageIsLoaded ==
    \A p \in Loads : p.state = "fulfilled" => p.value.complete

\* C3: for a non-empty source the promise resolves with the loaded image
\* itself when the load signals success, and with the placeholder when it
\* signals failure; the failure is logged with the attempted source, and the
\* promise is never rejected.
C3_NonEmptySource ==
    \A p \in Loads :
        p.src # <<>> =>
            /\ p.state # "rejected"
            /\ p.state = "fulfilled" =>
                \/ /\ p.src \in env.net
                   /\ p.value.kind = "loaded"
                   /\ p.value.src = p.src
                   /\ p.warned = <<>>
                \/ /\ p.src \notin env.net
                   /\ p.value.kind = "placeholder"
                   /\ \E i \in 1..Len(p.warned) : p.warned[i].src = p.src

\* C3 witness: one call with a source that loaded and a source that failed
C3_Witness ==
    \E r \in Calls :
        \E p, q \in {gen[r].loads[k] : k \in 1..Len(gen[r].loads)} :
            /\ p.src # <<>> /\ p.state = "fulfilled" /\ p.value.kind = "loaded"
            /\ q.src # <<>> /\ q.state = "fulfilled" /\ q.value.kind = "placeholder"

\* C4: for an empty source the promise is resolved with the placeholder by the
\* call itself (it is never pending), no Image element is given the source
\* and no onload/onerror handler is set.
C4_EmptySource ==
    \A p \in Loads :
        p.src = <<>> =>
            /\ p.state = "fulfilled"
            /\ p.value.kind = "placeholder"
            /\ p.elementSrc = Null
            /\ ~p.handlers

\* C4 witness: right after the call the promise of the empty source is
\* fulfilled while another load of the same call is still pending
C4_Witness ==
    \E r \in Calls :
        \E p, q \in {gen[r].loads[k] : k \in 1..Len(gen[r].loads)} :
            /\ p.src = <<>> /\ p.state = "fulfilled" /\ p.value.kind = "placeholder"
            /\ q.state = "pending"

\* C5: whatever the combination of loaded, failed and missing images,
\* generateCard returns one encoded image of a 600 by 850 canvas: a call
\* fails only for want of a drawing context, before any load, and once the
\* three loads are resolved its continuation returns the encoded image.
C5_GenerateCardReturnsImage ==
    \A r \in Calls :
        /\ gen[r].pc = "failed" =>
              gen[r].error = "Could not get canvas context" /\ gen[r].loads = <<>>
        /\ gen[r].pc = "returned" =>
              /\ gen[r].result.mime = "image/png"
              /\ gen[r].result.width = 600 /\ gen[r].result.height = 850
              /\ gen[r].canvas.width = 600 /\ gen[r].canvas.height = 850
        /\ (gen[r].pc = "loading" /\ AllResolved(gen[r])) =>
              FinishGenerateCard(gen[r], env.random).pc = "returned"

\* C5 witness: a returned call whose photo failed to load, whose portrait was
\* missing and whose logo loaded
C5_Witness ==
    \E r \in Calls :
        /\ gen[r].pc = "returned"
        /\ gen[r].loads[1].src # <<>> /\ gen[r].loads[1].value.kind = "placeholder"
        /\ gen[r].loads[2].src = <<>> /\ gen[r].loads[2].value.kind = "placeholder"
        /\ gen[r].loads[3].value.kind = "loaded"

\* C6: the three loadImage calls of a generateCard call are started together
\* (each non-empty source is with its Image element from the start of the
\* call), and nothing is drawn on the card canvas before all three promises
\* are resolved, whichever resolve first.
C6_DrawAfterAllLoads ==
    \A r \in Calls :
        /\ gen[r].pc = "loading" =>
              /\ Len(gen[r].loads) = 3
              /\ \A k \in 1..3 : gen[r].loads[k].src # <<>> =>
                                    gen[r].loads[k].elementSrc = gen[r].loads[k].src
        /\ gen[r].canvas.ops # <<>> =>
              \A k \in 1..3 : gen[r].loads[k].state = "fulfilled"

\* C6 witness: the logo (third) is resolved, the photo (first) is still
\* pending, and the canvas is untouched
C6_Witness ==
    \E r \in Calls :
        /\ gen[r].pc = "loading"
        /\ gen[r].loads[3].state = "fulfilled" /\ gen[r].loads[3].value.kind = "loaded"
        /\ gen[r].loads[1].state = "pending"
        /\ gen[r].canvas.ops = <<>>

-----------------------------------------------------------------------------
(* Properties of the batch handlers *)

\* the list of players the batch of activation r runs over
BatchPlayers(r) ==
    IF runs[r].pc = "parsing" THEN ExcelRows(runs[r].excelFile)
    ELSE runs[r].players

\* activation r ends as COMPLETED in this step
BatchCompletes(r) == runs[r].pc \in {"parsing", "awaiting"} /\ runs'[r].pc = "done"

\* C7: a batch over a list of N players that ends with status COMPLETED
\* leaves generatedCards with exactly N cards, in the order of the players,
\* the i-th card carrying the id of the i-th player.
C7_BatchLeavesItsCards ==
    [][\A r \in 1..Len(runs) :
          BatchCompletes(r) =>
              /\ status' = "completed"
              /\ Len(generatedCards') = Len(BatchPlayers(r))
              /\ \A i \in 1..Len(generatedCards') :
                    generatedCards'[i].playerId = BatchPlayers(r)[i].id]_vars

\* the generateCard calls in flight: begun, not yet returned or failed
InFlight == {r \in 1..Len(gen) : gen[r].pc = "loading"}

\* C8: at most one generateCard call is in flight at any moment, and within a
\* batch the call for player i+1 begins only when the cards of players 1..i
\* are recorded.
C8_OneCallInFlight ==
    /\ Cardinality(InFlight) <= 1
    /\ \A r \in 1..Len(runs) :
          runs[r].pc = "awaiting" => Len(runs[r].cards) = runs[r].i - 1

-----------------------------------------------------------------------------
(* Properties of drawTextWithFit *)

\* the measured width (tenths of a pixel) of the text of the call at a size
WidthAt(size) ==
    MeasureTextWidth10(SetFont(NewCanvas(CARD_WIDTH, CARD_HEIGHT), "700", size, "Cinzel"),
                       fit.text)

\* the text of the call is within its maximum width at a size
Fits(size) == WidthAt(size) <= fit.maxWidth * 10

\* the font size in force at the fillText of the call
DrawnSize ==
    LET ops == SelectSeq(fit.out.c.ops, LAMBDA o : o.op = "fillText")
    IN  ops[1].st.font.size

SetMax(S) == CHOOSE x \in S : \A y \in S : y <= x

\* C9 as stated: the size drawn at is the largest size >= 14 (and up to the
\* initial size) at which the measured width is <= the maximum width, or 14
\* if there is no such size.
C9_LargestFittingSize ==
    fit.pc = "returned" =>
        LET fitting == {s \in 14..fit.initialFontSize : Fits(s)}
        IN  DrawnSize = IF fitting = {} THEN 14 ELSE SetMax(fitting)

\* the sizes the loop can reach: the initial size less a multiple of 2
FitSteps == {s \in 0..fit.initialFontSize : (fit.initialFontSize - s) % 2 = 0}

\* C9 amended: the size drawn at (and returned) is the largest of the sizes
\* initial, initial - 2, initial - 4, ... at which the measured width is <=
\* the maximum width or the size is <= 14; for an even initial size >= 14 it
\* is the largest even size from 14 to the initial size that fits, or 14.
C9_LargestFittingStep ==
    fit.pc = "returned" =>
        /\ DrawnSize = SetMax({s \in FitSteps : Fits(s) \/ s <= 14})
        /\ fit.out.fontSize = DrawnSize
        /\ (fit.initialFontSize >= 14 /\ fit.initialFontSize % 2 = 0) =>
              LET fitting == {s \in 14..fit.initialFontSize : s % 2 = 0 /\ Fits(s)}
              IN  DrawnSize = IF fitting = {} THEN 14 ELSE SetMax(fitting)

\* C9 witness: a rating of three letters is drawn at 54 although it fits at 55
C9_Witness ==
    /\ fit.pc = "returned"
    /\ fit.maxWidth = 100 /\ fit.initialFontSize = 80 /\ Len(fit.text) = 3
    /\ DrawnSize = 54
    /\ Fits(55) /\ ~Fits(56)

\* C10 as stated: whatever the text, its measured width at the size used for
\* fillText is <= maxWidth.
C10_NoOverflow == fit.pc = "returned" => Fits(DrawnSize)

\* C10 amended: the measured width at the size used for fillText is <=
\* maxWidth unless that size has come down to the floor of 14 (or started at
\* or below it): only a text drawn at the floor can overflow.
C10_NoOverflowAboveFloor == fit.pc = "returned" => (Fits(DrawnSize) \/ DrawnSize <= 14)

\* C10 witness: a name too wide at 60 is shrunk to a size above the floor at
\* which it fits
C10_Witness ==
    /\ fit.pc = "returned"
    /\ fit.maxWidth = 480 /\ fit.initialFontSize = 60
    /\ ~Fits(60)
    /\ DrawnSize > 14 /\ DrawnSize < 60 /\ Fits(DrawnSize)

-----------------------------------------------------------------------------
(* Properties of error handling *)

\* C11: when the portrait or the logo is missing, handleForgeCards makes no
\* generateCard call and an error message becomes visible: the message it
\* sets is rendered in the state the App is then in.
C11_MissingAssetMessageShown ==
    [][ForgeRejected =>
          /\ gen' = gen
          /\ runs' = runs
          /\ RenderedErrorMessage' # NoMessage]_vars

\* C12: a generateCard call fails only when no drawing context could be
\* acquired (before any load or drawing) or when the encode fails on a
\* tainted canvas; whatever the player's fields and the outcomes of the
\* loads, a call whose canvas is not tainted returns.
C12_OnlyTwoFailures ==
    \A r \in Calls :
        /\ gen[r].pc = "failed" =>
              \/ /\ gen[r].error = "Could not get canvas context"
                 /\ gen[r].canvas.ops = <<>>
              \/ /\ gen[r].error = "SecurityError"
                 /\ gen[r].canvas.tainted
        /\ (gen[r].pc = "loading" /\ AllResolved(gen[r])) =>
              LET g == FinishGenerateCard(gen[r], env.random)
              IN  g.pc = "failed" => g.canvas.tainted

\* C12 witness: a call for the player with empty texts and a negative form
\* number returned, and so did not fail
C12_Witness ==
    \E r \in Calls :
        /\ gen[r].pc = "returned"
        /\ gen[r].player.name = <<>> /\ gen[r].player.role = <<>>
        /\ gen[r].player.formNumber < 0
        /\ gen[r].loads[1].value.kind = "placeholder"

\* activation r takes the failure of its generateCard call in this step
BatchFails(r) ==
    runs[r].pc = "awaiting" /\ gen[r].pc = "failed" /\ runs'[r].pc # "awaiting"

\* C13: when generateCard fails during a batch, handleForgeCards ends with
\* status ERROR and an error message, makes no further generateCard call and
\* never becomes COMPLETED, and the cards it produced before the failure are
\* still, unchanged, the cards of generatedCards.
C13_FailureEndsBatch ==
    [][\A r \in 1..Len(runs) :
          /\ BatchFails(r) =>
                /\ runs'[r].pc = "error"
                /\ gen'[r].pc = "none"
                /\ status' = "error"
                /\ errorMessage' = gen[r].error /\ errorMessage' # NoMessage
                /\ generatedCards' = generatedCards
                /\ \A i \in 1..Len(runs[r].cards) :
                      i <= Len(generatedCards') /\ generatedCards'[i] = runs[r].cards[i]
          /\ runs[r].pc = "error" => (runs'[r] = runs[r] /\ gen'[r] = gen[r])]_vars

\* C13 witness: a batch failed at its second player: the card of the first is
\* the one card of generatedCards, status is ERROR with a message
C13_Witness ==
    \E r \in 1..Len(runs) :
        /\ runs[r].pc = "error"
        /\ status = "error"
        /\ errorMessage = "Could not get canvas context"
        /\ Len(generatedCards) = 1
        /\ Len(players) = 2 /\ generatedCards[1].playerId = players[1].id


-----------------------------------------------------------------------------
(* Properties of the photo sources *)

\* the batch activations that are awaiting a generateCard call
Awaiting == {r \in 1..Len(runs) : runs[r].pc = "awaiting"}

\* the player record activation r is composing
CurrentPlayer(r) == runs[r].players[runs[r].i]

\* C14: the photo source a player is rendered with is manualImage when
\* present; else the map entry for the trimmed imageUrl; else the map entry
\* for imageUrl without its extension; else imageUrl when it starts with
\* 'http' or 'data:'; else the empty source.  handleIndividualUpload changes
\* only the manualImage of the player it is called for, and no imageUrl.
C14_SourcePrecedence ==
    [][LET WithoutExtension(s) ==
               IF \E i \in 1..Len(s) : s[i] = "." THEN BeforeLastDot(s) ELSE s
           Precedence(p, m) ==
               IF p.manualImage # <<>> THEN p.manualImage
               ELSE IF Trim(p.imageUrl) \in DOMAIN m THEN m[Trim(p.imageUrl)]
               ELSE IF WithoutExtension(Trim(p.imageUrl)) \in DOMAIN m
                    THEN m[WithoutExtension(Trim(p.imageUrl))]
               ELSE IF \/ StartsWith(p.imageUrl, <<"h", "t", "t", "p">>)
                       \/ StartsWith(p.imageUrl, <<"d", "a", "t", "a", ":">>)
                    THEN p.imageUrl
               ELSE <<>>
       IN  /\ \A r \in 1..Len(runs') :
                (runs'[r].pc = "awaiting" /\ gen'[r].pc # "none") =>
                    gen'[r].player.imageUrl =
                        Precedence(runs'[r].players[runs'[r].i], runs'[r].localImageMap)
           /\ \A id \in PlayerIds :
                HandleIndividualUpload(id) =>
                    /\ Len(players') = Len(players)
                    /\ \A i \in 1..Len(players) :
                          /\ players'[i].imageUrl = players[i].imageUrl
                          /\ players[i].id # id => players'[i] = players[i]
                          /\ players[i].id = id =>
                                players'[i] = [players[i] EXCEPT
                                                  !.manualImage = players'[i].manualImage]]_vars

\* a step of composition: of handleForgeCards or of a generateCard call
CompositionStep == runs' # runs \/ gen' # gen \/ ForgeRejected

\* C15: composition never modifies a player record: a step of
\* handleForgeCards or of generateCard leaves the players list, and the
\* records the batch iterates over, as they were; the resolved photo source
\* is only on the copy generateCard is called with, which is the record
\* with another imageUrl.
C15_PlayersUntouched ==
    [][CompositionStep =>
          /\ players' = players
          /\ \A r \in 1..Len(runs) :
                (runs[r].pc = "awaiting" /\ runs'[r].pc = "awaiting") =>
                    runs'[r].players = runs[r].players
          /\ \A r \in 1..Len(runs') :
                (runs'[r].pc = "awaiting" /\ gen'[r].pc # "none") =>
                    LET p == runs'[r].players[runs'[r].i]
                    IN  /\ gen'[r].player = [p EXCEPT !.imageUrl = gen'[r].player.imageUrl]
                        /\ r > Len(runs) => runs'[r].players = players]_vars

\* C15 witness: the second card of a batch is composed from a source that is
\* not the imageUrl of the player's record, and the record in the players
\* list still has its imageUrl and no manual image
C15_Witness ==
    \E r \in Awaiting :
        /\ runs[r].i = 2
        /\ gen[r].pc = "returned"
        /\ gen[r].player.imageUrl # <<>>
        /\ gen[r].player.imageUrl # CurrentPlayer(r).imageUrl
        /\ players = runs[r].players
        /\ players[2].imageUrl = FileName /\ players[2].manualImage = <<>>

\* a photo upload happens in this step
UploadStep ==
    \/ \E files \in UploadBatches : HandleBatchImageUpload(files)
    \/ \E id \in PlayerIds : HandleIndividualUpload(id)

\* C16: the local override map is read-only during a batch: an activation of
\* handleForgeCards starts with the map and the players of that moment and
\* keeps them to its end, every call it makes is for the source resolved
\* from them, and an upload while it is in flight changes neither the
\* activation nor its call.
C16_MapFixedDuringBatch ==
    [][/\ \A r \in 1..Len(runs') :
            runs'[r].pc = "awaiting" =>
                /\ r > Len(runs) =>
                      /\ runs'[r].localImageMap = assets.localImageMap
                      /\ runs'[r].players = players
                /\ (r <= Len(runs) /\ runs[r].pc = "awaiting") =>
                      /\ runs'[r].localImageMap = runs[r].localImageMap
                      /\ runs'[r].players = runs[r].players
                /\ gen'[r].pc # "none" =>
                      gen'[r].player.imageUrl =
                          GetPlayerImageSource(runs'[r].players[runs'[r].i],
                                               runs'[r].localImageMap)
       /\ UploadStep => (runs' = runs /\ gen' = gen)]_vars

\* C16 witness: photos were uploaded while a batch was in flight, and its
\* second card is composed from the source the earlier map and players give,
\* not the one the present map and players would give
C16_Witness ==
    \E r \in Awaiting :
        /\ runs[r].i = 2
        /\ gen[r].pc = "returned"
        /\ assets.localImageMap # runs[r].localImageMap
        /\ Len(players) = 2
        /\ GetPlayerImageSource(players[2], assets.localImageMap) # gen[r].player.imageUrl
        /\ gen[r].player.imageUrl =
              GetPlayerImageSource(CurrentPlayer(r), runs[r].localImageMap)

\* C17: after handleBatchImageUpload the map holds two keys for every
\* uploaded file, its name with the extension and its name without it, both
\* mapped to the object URL created for that file; an entry the map had
\* before is kept unless a new file uses its key.
C17_TwoKeysPerFile ==
    [][\A files \in UploadBatches :
          HandleBatchImageUpload(files) =>
              LET old == assets.localImageMap
                  new == assets'.localImageMap
                  WithoutExtension(s) ==
                      IF \E i \in 1..Len(s) : s[i] = "." THEN BeforeLastDot(s) ELSE s
                  newKeys == {files[j] : j \in 1..Len(files)}
                                 \cup {WithoutExtension(files[j]) : j \in 1..Len(files)}
              IN  /\ \A j \in 1..Len(files) :
                        LET name == files[j]
                            bare == WithoutExtension(name)
                        IN  /\ bare # name
                            /\ name \in DOMAIN new /\ bare \in DOMAIN new
                            /\ new[name] = ObjectUrl(env.blobs + j)
                            /\ new[bare] = ObjectUrl(env.blobs + j)
                  /\ \A k \in DOMAIN old :
                        /\ k \in DOMAIN new
                        /\ k \notin newKeys => new[k] = old[k]]_vars

-----------------------------------------------------------------------------
(* Properties of the drawing *)

\* the calls a generateCard call made on its context, the x-coordinates of
\* the texture lines (the moveTo and lineTo at save depth 2) left out
DrawingOf(g) ==
    [i \in 1..Len(g.canvas.ops) |->
        LET o == g.canvas.ops[i]
        IN  IF o.op \in {"moveTo", "lineTo"} /\ o.depth = 2
            THEN [o EXCEPT !.args = <<o.args[2]>>]
            ELSE o]

\* what became of the three loads of a call: the image of the source, or
\* the placeholder
LoadOutcomes(g) == [k \in 1..Len(g.loads) |-> g.loads[k].value.kind]

\* C18: generateCard is pure with respect to its three inputs: of two calls
\* with the same player, portrait and logo and the same outcomes of the
\* three loads, the second makes the drawing calls of the first, with the
\* same arguments but for the x-coordinates of the texture lines, whatever
\* the first call left behind.
C18_SameInputsSameDrawing ==
    (/\ Len(gen) = 2
     /\ gen[1].pc = "returned" /\ gen[2].pc = "returned"
     /\ gen[1].player = gen[2].player
     /\ gen[1].agrasenUrl = gen[2].agrasenUrl /\ gen[1].logoUrl = gen[2].logoUrl
     /\ LoadOutcomes(gen[1]) = LoadOutcomes(gen[2]))
        => DrawingOf(gen[1]) = DrawingOf(gen[2])

\* the fillText calls of a generateCard call, in the order they were made
TextsOf(g) == SelectSeq(g.canvas.ops, LAMBDA o : o.op = "fillText")

\* C19: the layout does not depend on the strings: in every card the rating
\* is drawn at y = 160, the name at y = 530 and the three stat rows at 590,
\* 648 and 706 (label at y - 5, value at y + 25), the left column at x = 115
\* and the rest at x = 300, whatever the texts and the font sizes the
\* text-fit chose.
C19_FixedLayout ==
    \A r \in Calls :
        gen[r].pc = "returned" =>
            LET t == TextsOf(gen[r])
                p == gen[r].player
            IN  /\ Len(t) = 9
                /\ t[1].args = <<RatingText(p), 115, 160>>
                /\ t[2].args = <<RoleAbbr(p), 115, 200>>
                /\ t[3].args = <<ToUpperCase(p.name), 300, 530>>
                /\ \A k \in 0..2 :
                      /\ t[4 + 2 * k].args[2] = 300 /\ t[4 + 2 * k].args[3] = 590 + 58 * k - 5
                      /\ t[5 + 2 * k].args[2] = 300 /\ t[5 + 2 * k].args[3] = 590 + 58 * k + 25
                /\ t[5].args[1] = ToUpperCase(p.role)
                /\ t[7].args[1] = ToUpperCase(p.battingStyle)
                /\ t[9].args[1] = ToUpperCase(p.bowlingStyle)

\* C19 witness: a card whose rating, name and batting style were all shrunk
\* by the text-fit, to different sizes, and are drawn at 160, 530 and 673
C19_Witness ==
    \E r \in Calls :
        /\ gen[r].pc = "returned"
        /\ LET t == TextsOf(gen[r])
           IN  /\ t[1].st.font.size < 80 /\ t[1].args[3] = 160
               /\ t[3].st.font.size = FONT_FLOOR /\ t[3].args[3] = 530
               /\ t[7].st.font.size < 24 /\ t[7].args[3] = 673
               /\ t[9].st.font.size = 24 /\ t[9].args[3] = 731

\* the positions, in the calls of g, of the calls that satisfy P
Where(g, P(_)) == {i \in 1..Len(g.canvas.ops) : P(g.canvas.ops[i])}

\* every position of S is before every position of T
Before(S, T) == \A i \in S, j \in T : i < j

\* C20: generateCard makes its drawing steps in one order, each of them in
\* every call: the shield clip, the background gradient, the five texture
\* lines, the player photo, the bottom fade (also over the placeholder), the
\* left column, the name, the three stat rows, the release of the shield
\* clip, the thick gold and the thin pale stroke of the shield with no clip
\* in force; the image returned encodes the canvas after the last of them.
C20_FixedDrawingOrder ==
    \A r \in Calls :
        gen[r].pc = "returned" =>
            LET g == gen[r]
                clip == Where(g, LAMBDA o : o.op = "clip" /\ o.depth = 1)
                gradient == Where(g, LAMBDA o : o.op = "fillRect"
                                         /\ o.args = <<0, 0, CARD_WIDTH, CARD_HEIGHT>>)
                texture == Where(g, LAMBDA o : o.op = "stroke" /\ o.depth = 2)
                photo == Where(g, LAMBDA o : o.op = "drawImage"
                                      /\ o.args = <<g.loads[1].value, 130, 135, 440, 440>>)
                fade == Where(g, LAMBDA o : o.op = "fillRect"
                                     /\ o.args = <<0, 455, CARD_WIDTH, 140>>)
                column == Where(g, LAMBDA o : \/ o.op = "fillText" /\ o.args[2] = 115
                                              \/ o.op = "drawImage" /\ o.args[2] = 80)
                name == Where(g, LAMBDA o : o.op = "fillText" /\ o.args[3] = 530)
                stats == Where(g, LAMBDA o : o.op = "fillText" /\ o.args[3] > 530)
                release == Where(g, LAMBDA o : o.op = "restore" /\ o.depth = 1
                                        /\ o.st.clip # <<>>)
                gold == Where(g, LAMBDA o : o.op = "stroke" /\ o.st.lineWidth = 15
                                     /\ o.st.strokeStyle = "#ffd700")
                pale == Where(g, LAMBDA o : o.op = "stroke" /\ o.st.lineWidth = 2
                                     /\ o.st.strokeStyle = "#fff8dc")
            IN  /\ Cardinality(clip) = 1 /\ Cardinality(gradient) = 1
                /\ Cardinality(texture) = 5 /\ Cardinality(photo) = 1
                /\ Cardinality(fade) = 1 /\ Cardinality(column) = 4
                /\ Cardinality(name) = 1 /\ Cardinality(stats) = 6
                /\ Cardinality(release) = 1
                /\ Cardinality(gold) = 1 /\ Cardinality(pale) = 1
                /\ Before(clip, gradient) /\ Before(gradient, texture)
                /\ Before(texture, photo) /\ Before(photo, fade)
                /\ Before(fade, column) /\ Before(column, name)
                /\ Before(name, stats) /\ Before(stats, release)
                /\ Before(release, gold) /\ Before(gold, pale)
                /\ \A i \in gold \cup pale : g.canvas.ops[i].st.clip = <<>>
                /\ \A i \in gradient \cup texture \cup photo \cup fade \cup column
                              \cup name \cup stats :
                      g.canvas.ops[i].st.clip # <<>>
                /\ g.result = ToDataURL(g.canvas).url

\* C20 witness: a card whose photo is the placeholder was drawn: the fade is
\* there after the photo, and the two strokes end the drawing
C20_Witness ==
    \E r \in Calls :
        /\ gen[r].pc = "returned"
        /\ gen[r].loads[1].value.kind = "placeholder"
        /\ \E i, j \in 1..Len(gen[r].canvas.ops) :
              /\ i < j
              /\ gen[r].canvas.ops[i].op = "drawImage"
              /\ gen[r].canvas.ops[i].args[1].kind = "placeholder"
              /\ gen[r].canvas.ops[j].op = "fillRect"
              /\ gen[r].canvas.ops[j].args = <<0, 455, CARD_WIDTH, 140>>
        /\ gen[r].canvas.ops[Len(gen[r].canvas.ops) - 1].op = "stroke"

-----------------------------------------------------------------------------
(* The App under a fair event loop: every queued task and every due        *)
(* continuation is run; what the user does and when is left open           *)

\* generateCard's continuation of the await is due: ENABLED GenDraw(r)
DrawDue(r) == r <= Len(gen) /\ gen[r].pc = "loading" /\ AllResolved(gen[r])

\* the load of every image that was started signals success or failure, and
\* the continuations of handleForgeCards and of generateCard are run (the
\* last is WF_vars(GenDraw(r)), written out with its enabling condition)
EventLoopFairness ==
    /\ \A r \in 1..MaxBatchRuns, k \in 1..3 :
          /\ WF_vars(r <= Len(gen) /\ ImgOnLoad(r, k))
          /\ WF_vars(r <= Len(gen) /\ ImgOnError(r, k))
    /\ \A r \in 1..MaxBatchRuns :
          /\ WF_vars(r <= Len(runs) /\ ForgeNextCard(r))
          /\ WF_vars(r <= Len(runs) /\ ForgeCompleted(r))
          /\ WF_vars(r <= Len(runs) /\ ForgeFailed(r))
          /\ <>[]DrawDue(r) => []<><<DrawDue(r) /\ GenDraw(r)>>_vars

SpecLive == SpecUpload /\ EventLoopFairness

-----------------------------------------------------------------------------
(* Properties of termination *)

\* activation r of handleForgeCards is awaiting a generateCard call
RunInFlight(r) == r <= Len(runs) /\ runs[r].pc = "awaiting"

\* activation r has ended, as COMPLETED or as ERROR
RunEnded(r) == r <= Len(runs) /\ runs[r].pc \in {"done", "error"}

\* C21: a composition that has started runs to completion: when every load
\* signals, every generateCard call in flight returns or fails and every
\* batch run in flight ends, setting the status COMPLETED or ERROR as it
\* ends; a step that is not the composition's own leaves it as it is.
C21_RunsToCompletion ==
    /\ \A r \in 1..MaxBatchRuns :
          /\ (r <= Len(gen) /\ gen[r].pc = "loading")
                ~> (r <= Len(gen) /\ gen[r].pc \in {"returned", "failed"})
          /\ RunInFlight(r) ~> RunEnded(r)
    /\ [][\A r \in 1..Len(runs) :
             /\ (RunInFlight(r) /\ RunEnded(r)') =>
                   status' = (IF runs'[r].pc = "done" THEN "completed" ELSE "error")
             /\ RunInFlight(r) =>
                   \/ RunInFlight(r)' /\ (runs'[r] # runs[r] => runs'[r].i = runs[r].i + 1)
                   \/ RunEnded(r)']_vars

\* C21 witness: a batch over two players has ended as COMPLETED, its two
\* cards recorded, with a photo in the override map
C21_Witness ==
    \E r \in 1..Len(runs) :
        /\ runs[r].pc = "done"
        /\ status = "completed"
        /\ Len(generatedCards) = 2
        /\ assets.localImageMap # EmptyMap

-----------------------------------------------------------------------------
(* Properties of the texts of the card *)

\* the integer a decimal numeral stands for: an optional '-', then digits
RECURSIVE DigitsValue(_)
DigitsValue(s) ==
    IF s = <<>> THEN 0
    ELSE 10 * DigitsValue(SubSeq(s, 1, Len(s) - 1))
            + (CHOOSE d \in 0..9 : DigitChar[d + 1] = s[Len(s)])

IsDigits(s) == s # <<>> /\ \A i \in 1..Len(s) : \E d \in 1..10 : DigitChar[d] = s[i]

\* C22: the rating drawn on the card is formNumber in decimal, padded on the
\* left with '0' to at least two characters, for every integer formNumber:
\* zero, one digit, negative, 96, 100; and such a card is drawn, not failed.
C22_RatingText ==
    \A r \in Calls :
        /\ gen[r].pc = "returned" =>
              LET text == TextsOf(gen[r])[1].args[1]
                  n == gen[r].player.formNumber
              IN  /\ Len(text) >= 2
                  /\ IF n < 0
                     THEN /\ text[1] = "-" /\ IsDigits(Tail(text))
                          /\ DigitsValue(Tail(text)) = 0 - n
                          /\ text[2] # "0"
                     ELSE /\ IsDigits(text)
                          /\ DigitsValue(text) = n
                          /\ (Len(text) > 2 => text[1] # "0")
        /\ gen[r].pc = "failed" => gen[r].error = "Could not get canvas context"

\* C22 witness: the card of a player with form number 0 was drawn, its
\* rating the text 00
C22_Witness ==
    \E r \in Calls :
        /\ gen[r].pc = "returned"
        /\ gen[r].player.formNumber = 0
        /\ TextsOf(gen[r])[1].args = <<<<"0", "0">>, 115, 160>>

\* C23: the role abbreviation drawn on the card is the first three characters
\* of role, each upper-cased, whatever they are; of a role with fewer than
\* three characters it is the whole role upper-cased.
C23_RoleAbbreviation ==
    \A r \in Calls :
        gen[r].pc = "returned" =>
            LET abbr == TextsOf(gen[r])[2].args[1]
                role == gen[r].player.role
            IN  /\ Len(abbr) = (IF Len(role) < 3 THEN Len(role) ELSE 3)
                /\ \A i \in 1..Len(abbr) : abbr[i] = UpperOfChar(role[i])
                /\ Len(role) < 3 => abbr = ToUpperCase(role)

\* C23 witness: the card of a player whose role is 'wk' was drawn with the
\* abbreviation WK
C23_Witness ==
    \E r \in Calls :
        /\ gen[r].pc = "returned"
        /\ gen[r].player.role = <<"w", "k">>
        /\ TextsOf(gen[r])[2].args = <<<<"W", "K">>, 115, 200>>

-----------------------------------------------------------------------------
(* Properties of drawTextWithFit *)

\* the calls the drawTextWithFit call made on its context
FitOps == fit.out.c.ops

\* C24: drawTextWithFit draws the text once per call, when the shrink loop
\* has ended and at the size it ended with (the size it returns, at which the
\* loop's condition is false), center-aligned on the anchor; it makes no
\* other drawing call.
C24_DrawsOnceAtFinalSize ==
    fit.pc = "returned" =>
        /\ [i \in 1..Len(FitOps) |-> FitOps[i].op] = <<"save", "fillText", "restore">>
        /\ FitOps[2].args = <<fit.text, 300, 700>>
        /\ FitOps[2].st.textAlign = "center"
        /\ FitOps[2].st.font.size = fit.out.fontSize
        /\ ~(WidthAt(FitOps[2].st.font.size) > fit.maxWidth * 10
                /\ FitOps[2].st.font.size > FONT_FLOOR)

\* C24 witness: a call whose loop shrank the font from 60 to 40 drew the
\* text once, at 40
C24_Witness ==
    /\ fit.pc = "returned"
    /\ fit.initialFontSize = 60
    /\ Len(SelectSeq(FitOps, LAMBDA o : o.op = "fillText")) = 1
    /\ FitOps[2].st.font.size = 40
    /\ fit.out.fontSize = 40

-----------------------------------------------------------------------------
(* Properties of the cards list *)

\* xs is a prefix of ys
IsPrefix(xs, ys) == Len(xs) <= Len(ys) /\ \A i \in 1..Len(xs) : xs[i] = ys[i]

\* the generateCard call of activation r returns to the loop in this step
CardReturns(r) == RunInFlight(r) /\ gen[r].pc = "returned" /\ runs'[r] # runs[r]

\* C25: progress is reported after each card: while a batch run is in
\* flight generatedCards is the list of the cards of a prefix of its players
\* (same ids, same order), each return of a generateCard call makes it one
\* card longer, and no step makes it shorter or changes a card in it.
C25_ProgressPerCard ==
    [][\A r \in 1..Len(runs) :
          RunInFlight(r) =>
              /\ IsPrefix([i \in 1..Len(generatedCards) |-> generatedCards[i].playerId],
                          [i \in 1..Len(runs[r].players) |-> runs[r].players[i].id])
              /\ CardReturns(r) => Len(generatedCards') = Len(generatedCards) + 1
              /\ IsPrefix(generatedCards, generatedCards')]_vars

-----------------------------------------------------------------------------
(* Properties of the scout report *)

\* handleGenerateScoutReport resumes from its await and returns in this step
ScoutCompletes == scout.pc = "awaiting" /\ scout'.pc = "none"

\* the card without its report
Face(card) == [playerId |-> card.playerId, dataUrl |-> card.dataUrl]

\* C26: handleGenerateScoutReport changes only the scoutReport of the cards
\* of the selected player: the step in which it completes leaves
\* generatedCards with the length, the order, the playerIds and the dataUrls
\* it had, and with the scoutReport of every other player's card, also when
\* the batch loop added cards while the request was in flight.
C26_OnlyTheReportChanges ==
    [][ScoutCompletes =>
          /\ Len(generatedCards') = Len(generatedCards)
          /\ \A i \in 1..Len(generatedCards) :
                /\ i <= Len(generatedCards')
                /\ Face(generatedCards'[i]) = Face(generatedCards[i])
                /\ generatedCards[i].playerId # scout.selectedCard.playerId
                      => generatedCards'[i] = generatedCards[i]]_vars

-----------------------------------------------------------------------------
(* Properties of the photo lookup *)

\* a file name without its final extension (the whole name when it has none)
WithoutFinalExtension(s) ==
    IF \E i \in 1..Len(s) : s[i] = "." THEN BeforeLastDot(s) ELSE s

\* the uploaded photos in map m whose name equals the Excel value of player p
\* once the final extension is removed from both
MatchingPhotos(p, m) ==
    {f \in DOMAIN m \cap UploadFiles :
        WithoutFinalExtension(f) = WithoutFinalExtension(Trim(p.imageUrl))}

\* C27: a player without manualImage whose Excel file name equals the name
\* of an uploaded batch photo, final extensions removed, is rendered with the
\* object URL created for such a photo, also when the names hold more than
\* one dot.
C27_MatchWithoutFinalExtension ==
    \A r \in Awaiting :
        LET p == CurrentPlayer(r)
            m == runs[r].localImageMap
        IN  (gen[r].pc # "none" /\ p.manualImage = <<>> /\ MatchingPhotos(p, m) # {})
                => gen[r].player.imageUrl \in {m[f] : f \in MatchingPhotos(p, m)}

-----------------------------------------------------------------------------
(* Properties of the font size *)

\* C28 as stated: for an initial size >= 14 the size drawn at and returned
\* is at least the floor 14, at most the initial size, and differs from the
\* initial size by a multiple of the step 2.
C28_SizeWithinBounds ==
    (fit.pc = "returned" /\ fit.initialFontSize >= 14) =>
        /\ fit.out.fontSize = DrawnSize
        /\ DrawnSize >= 14
        /\ DrawnSize <= fit.initialFontSize
        /\ (fit.initialFontSize - DrawnSize) % 2 = 0

\* C28 amended: for an initial size >= 14 the size drawn at and returned is
\* at most the initial size and differs from it by a multiple of 2; it is at
\* least 14 when the initial size is even, and at least 13 when it is odd.
C28_SizeWithinParityBounds ==
    (fit.pc = "returned" /\ fit.initialFontSize >= 14) =>
        /\ fit.out.fontSize = DrawnSize
        /\ DrawnSize >= (IF fit.initialFontSize % 2 = 0 THEN 14 ELSE 13)
        /\ DrawnSize <= fit.initialFontSize
        /\ (fit.initialFontSize - DrawnSize) % 2 = 0

\* C28 witness: a text too wide at 15 is shrunk once, to 13
C28_Witness ==
    /\ fit.pc = "returned"
    /\ fit.initialFontSize = 15
    /\ ~Fits(15)
    /\ DrawnSize = 13 /\ fit.out.fontSize = 13

-----------------------------------------------------------------------------
(* Properties of the canvas state stack *)

\* the generateCard calls that have drawn their card and called toDataURL
Drawn == {r \in Calls : gen[r].canvas.ops # <<>>}

\* the position of the restore that undoes the save at position i of ops,
\* 0 if there is none: the first later restore made one level deeper
MatchOf(ops, i) ==
    LET later == {j \in i + 1..Len(ops) :
                     ops[j].op = "restore" /\ ops[j].depth = ops[i].depth + 1}
    IN  IF later = {} THEN 0 ELSE CHOOSE j \in later : \A k \in later : j <= k

\* the path of the shield
ShieldPath == DrawShieldPath(NewCanvas(CARD_WIDTH, CARD_HEIGHT), CARD_WIDTH, CARD_HEIGHT).path

\* C29: the canvas state stack of a generateCard call is balanced: every
\* save is undone by a later restore, those of drawTextWithFit included, no
\* restore is made on an empty stack, the shield clip is in force from its
\* clip() to the restore that ends the clipping scope and in no call after
\* it, the circular clip of the portrait is gone when the border of the
\* portrait is stroked, and the stack is empty when toDataURL is called.
C29_StateStackBalanced ==
    \A r \in Drawn :
        LET ops == gen[r].canvas.ops
            saves == {i \in 1..Len(ops) : ops[i].op = "save"}
            restores == {i \in 1..Len(ops) : ops[i].op = "restore"}
            shieldClip == {i \in 1..Len(ops) : ops[i].op = "clip" /\ ops[i].depth = 1}
            portraitClip == {i \in 1..Len(ops) : ops[i].op = "clip" /\ ops[i].depth = 2}
            portraitBorder == {i \in 1..Len(ops) :
                                  /\ ops[i].op = "stroke" /\ ops[i].st.lineWidth = 2
                                  /\ ops[i].st.strokeStyle = "#ffd700"}
            scopeEnd == MatchOf(ops, 1)
        IN  /\ \A i \in saves : MatchOf(ops, i) # 0
            /\ \A i, j \in saves : i # j => MatchOf(ops, i) # MatchOf(ops, j)
            /\ Cardinality(saves) = Cardinality(restores)
            /\ Cardinality(saves) = 10
            /\ \A j \in restores : ops[j].depth >= 1
            /\ ops[1].op = "save" /\ scopeEnd # 0
            /\ Cardinality(shieldClip) = 1
            /\ \A i \in shieldClip :
                  /\ i < scopeEnd
                  /\ \A k \in 1..Len(ops) :
                        IF i < k /\ k <= scopeEnd
                        THEN ops[k].st.clip # <<>> /\ ops[k].st.clip[1] = ShieldPath
                        ELSE ops[k].st.clip = <<>>
            /\ Cardinality(portraitClip) = 1 /\ Cardinality(portraitBorder) = 1
            /\ \A i \in portraitClip, j \in portraitBorder :
                  /\ MatchOf(ops, i - 4) \in i + 1..j - 1
                  /\ ops[i - 4].op = "save"
                  /\ Len(ops[i + 1].st.clip) = 2 /\ ops[i + 1].op = "drawImage"
                  /\ ops[j].st.clip = <<ShieldPath>>
            /\ gen[r].canvas.stack = <<>>
            /\ gen[r].canvas.st.clip = <<>>

\* C29 witness: a card was drawn whose name and rating went through the
\* shrink loop, and its image was returned
C29_Witness ==
    \E r \in Drawn :
        /\ gen[r].pc = "returned"
        /\ \E i, j \in 1..Len(gen[r].canvas.ops) :
              /\ gen[r].canvas.ops[i].op = "fillText" /\ gen[r].canvas.ops[i].args[3] = 530
              /\ gen[r].canvas.ops[i].st.font.size < 60
              /\ gen[r].canvas.ops[i].depth = 3
              /\ gen[r].canvas.ops[j].op = "fillText" /\ gen[r].canvas.ops[j].args[3] = 160
              /\ gen[r].canvas.ops[j].st.font.size < 80
              /\ gen[r].canvas.ops[j].depth = 2

-----------------------------------------------------------------------------
(* Properties of the context after drawTextWithFit *)

\* C30: drawTextWithFit leaves the state of the context as it found it: the
\* font, textAlign, textBaseline and fillStyle after the call are those
\* before the call (as is the rest of the state, and the stack of saved
\* states), whatever the number of shrink steps.
C30_ContextUnchanged ==
    fit.pc = "returned" =>
        LET before == NewCanvas(CARD_WIDTH, CARD_HEIGHT)
            after == fit.out.c
        IN  /\ after.st.font = before.st.font
            /\ after.st.textAlign = before.st.textAlign
            /\ after.st.textBaseline = before.st.textBaseline
            /\ after.st.fillStyle = before.st.fillStyle
            /\ after.st = before.st
            /\ after.stack = before.stack

\* C30 witness: a call that shrank the font three times or more, under a
\* font, an alignment and a colour it set itself, has returned
C30_Witness ==
    /\ fit.pc = "returned"
    /\ fit.initialFontSize - fit.out.fontSize >= 6
    /\ \E i \in 1..Len(fit.out.c.ops) :
          /\ fit.out.c.ops[i].op = "fillText"
          /\ fit.out.c.ops[i].st.textAlign = "center"
          /\ fit.out.c.ops[i].st.fillStyle = "#ffffff"
          /\ fit.out.c.ops[i].st.font.size = fit.out.fontSize
          /\ fit.out.c.ops[i].st.font # fit.out.c.st.font
=============================================================================
